---------------------------- MODULE Spec2Model ----------------------------
(***************************************************************************)
(* Model of the handbook question-answering engine of the iDiscipline      *)
(* backend (category classifier, FAQ resolver, the two passage rankers,    *)
(* the answer composer), of the HTTP handlers and the rate limiter around  *)
(* it, of the push-token registry, of the phone number formatting, of the  *)
(* password reset, of the e-mail verification and of the chat relay.       *)
(*                                                                         *)
(* A JavaScript string is a sequence of one-character strings.  A          *)
(* JavaScript value that may be absent or not a string is a record         *)
(* [t, s]: t = "str" with the characters in s, t = "undef" for undefined,  *)
(* t = "num" for a value that is not a string (the number 7).              *)
(***************************************************************************)
EXTENDS Integers, Sequences, FiniteSets, Bags, TLC

VARIABLES
    now,            \* Date.now() of the server process, in ms
    requestCounts,  \* the requestCounts Map: minute bucket -> count
    handbook,       \* what readFileSync + pdfParse give for studenthandbook.pdf
    res,            \* the last HTTP request and the response it got
    args,           \* the arguments of a direct call of an engine function
    ret,            \* what that call returned
    variant,        \* which server variant handles the /push requests
    uniqueIndex,    \* whether user_push_tokens has a unique index on (user_id, push_token)
    user_push_tokens,  \* the rows of the table user_push_tokens; a row's id is its place
    registering,    \* the bag of /push/register handlers between their select and their write
    pushRes,        \* the last /push request and the response it got
    deactivated,    \* the (user, token) pairs deactivated with {userId, expoPushToken}
                    \* and not registered since
    calls,          \* the direct calls of checkRateLimit: when the calls of the
                    \* last window returned, and how the last call ended
    accounts,       \* the row of the users table and the row of the students table
                    \* that the password reset works on
    issued,         \* how many reset tokens /request-password-reset has generated
    confirming,     \* the bag of /confirm-password-reset handlers between their
                    \* select and their update
    succeeded,      \* the bag of reset tokens whose confirmation was answered with 200
    resetRes,       \* the last password-reset request and the response it got
    student,        \* the row of the students table that awaits verification
    minted,         \* how many verification tokens have been generated
    verifyRes,      \* the last verification request and the response it got
    rooms,          \* socket.io rooms: room name -> the sockets that joined it
    messages,       \* the rows of the table messages
    messages_ir,    \* the rows of the table messages_ir
    emitted         \* the events emitted to sockets

engineVars == <<now, requestCounts, handbook, res, args, ret, calls>>

pushVars == <<variant, uniqueIndex, user_push_tokens, registering, pushRes, deactivated>>

resetVars == <<accounts, issued, confirming, succeeded, resetRes>>

verifyVars == <<student, minted, verifyRes>>

chatVars == <<rooms, messages, messages_ir, emitted>>

siteVars == <<resetVars, verifyVars, chatVars>>

vars == <<now, requestCounts, handbook, res, args, ret, pushVars, calls, siteVars>>

-----------------------------------------------------------------------------
(* Characters and strings *)

NL == "\n"

LowerLetters ==
    <<"a","b","c","d","e","f","g","h","i","j","k","l","m",
      "n","o","p","q","r","s","t","u","v","w","x","y","z">>

UpperLetters ==
    <<"A","B","C","D","E","F","G","H","I","J","K","L","M",
      "N","O","P","Q","R","S","T","U","V","W","X","Y","Z">>

Digits == {"0","1","2","3","4","5","6","7","8","9"}

LowerSet == {LowerLetters[i] : i \in 1..Len(LowerLetters)}

UpperSet == {UpperLetters[i] : i \in 1..Len(UpperLetters)}

LowerOf == [c \in UpperSet |-> LowerLetters[CHOOSE i \in 1..Len(UpperLetters) : UpperLetters[i] = c]]

\* \s of a JavaScript regular expression, on the characters the model uses
IsSpace(c) == c \in {" ", NL, "\t"}

\* [a-z0-9]
IsAlnum(c) == c \in LowerSet \cup Digits

LowerChar(c) == IF c \in UpperSet THEN LowerOf[c] ELSE c

\* String.prototype.toLowerCase
toLowerCase(s) == [i \in 1..Len(s) |-> LowerChar(s[i])]

RECURSIVE TrimStart(_)
TrimStart(s) == IF s # <<>> /\ IsSpace(Head(s)) THEN TrimStart(Tail(s)) ELSE s

RECURSIVE TrimEnd(_)
TrimEnd(s) == IF s # <<>> /\ IsSpace(s[Len(s)]) THEN TrimEnd(SubSeq(s, 1, Len(s) - 1)) ELSE s

\* String.prototype.trim
trim(s) == TrimEnd(TrimStart(s))

\* lit occurs in s at position i
At(s, i, lit) ==
    /\ i + Len(lit) - 1 <= Len(s)
    /\ \A k \in 1..Len(lit) : s[i + k - 1] = lit[k]

\* String.prototype.includes
includes(s, lit) == \E i \in 1..(Len(s) + 1) : At(s, i, lit)

RECURSIVE Flatten(_, _)
\* Array.prototype.join
Flatten(parts, sep) ==
    IF parts = <<>> THEN <<>>
    ELSE IF Len(parts) = 1 THEN parts[1]
    ELSE parts[1] \o sep \o Flatten(Tail(parts), sep)

RECURSIVE SplitChar(_, _)
\* String.prototype.split on a one-character separator: the pieces between
\* the separators, empty pieces included ("" gives one empty piece)
SplitChar(s, c) ==
    IF \E i \in 1..Len(s) : s[i] = c
    THEN LET i == CHOOSE i \in 1..Len(s) : s[i] = c /\ \A j \in 1..(i - 1) : s[j] # c
         IN  <<SubSeq(s, 1, i - 1)>> \o SplitChar(SubSeq(s, i + 1, Len(s)), c)
    ELSE <<s>>

RECURSIVE AlnumTokens(_)
\* split(/[^a-z0-9]+/).filter(Boolean): the maximal runs of [a-z0-9]
AlnumTokens(s) ==
    IF s = <<>> THEN <<>>
    ELSE IF ~IsAlnum(Head(s)) THEN AlnumTokens(Tail(s))
    ELSE LET n == IF \E i \in 1..Len(s) : ~IsAlnum(s[i])
                  THEN (CHOOSE i \in 1..Len(s) : ~IsAlnum(s[i]) /\ \A j \in 1..(i - 1) : IsAlnum(s[j])) - 1
                  ELSE Len(s)
         IN  <<SubSeq(s, 1, n)>> \o AlnumTokens(SubSeq(s, n + 1, Len(s)))

\* the set of the elements of an array
Range(seq) == {seq[i] : i \in 1..Len(seq)}

\* Array.prototype.slice(0, n) for n >= 0
Slice0(seq, n) == SubSeq(seq, 1, IF n < Len(seq) THEN n ELSE Len(seq))

-----------------------------------------------------------------------------
(* Regular expressions.  A pattern maps the set of positions at which a    *)
(* match may begin to the set of positions just after its matches.         *)

Positions(s) == 1..(Len(s) + 1)

\* a literal
ReLit(s, S, lit) == {i + Len(lit) : i \in {j \in S : At(s, j, lit)}}

\* an alternation of literals
ReAny(s, S, lits) == UNION {ReLit(s, S, lit) : lit \in lits}

\* \s*
ReSpaces(s, S) ==
    {j \in Positions(s) : \E i \in S : i <= j /\ \A k \in i..(j - 1) : IsSpace(s[k])}

\* \s+
ReSpaces1(s, S) == ReSpaces(s, {i + 1 : i \in {j \in S : j <= Len(s) /\ IsSpace(s[j])}})

\* .*   (the dot matches no line terminator)
ReDots(s, S) ==
    {j \in Positions(s) : \E i \in S : i <= j /\ \A k \in i..(j - 1) : s[k] # NL}

\* \n+
ReNewlines1(s, S) ==
    {j \in Positions(s) : \E i \in S : i < j /\ \A k \in i..(j - 1) : s[k] = NL}

\* a\s*b
ReGap(s, S, a, b) == ReLit(s, ReSpaces(s, ReLit(s, S, a)), b)

\* RegExp.prototype.test of an alternation of literals
TestAny(s, lits) == \E lit \in lits : includes(s, lit)

\* RegExp.prototype.test of a\s*b
TestGap(s, a, b) == ReGap(s, Positions(s), a, b) # {}

-----------------------------------------------------------------------------
(* JavaScript values *)

Str(s) == [t |-> "str", s |-> s]

Undefined == [t |-> "undef", s |-> <<>>]

NotAString == [t |-> "num", s |-> <<>>]

\* ToBoolean: undefined and '' are falsy, the number 7 and other strings truthy
Truthy(v) == v.t = "num" \/ (v.t = "str" /\ v.s # <<>>)

\* String(v)
StringOf(v) ==
    CASE v.t = "str" -> v.s
      [] v.t = "undef" -> <<"u","n","d","e","f","i","n","e","d">>
      [] OTHER -> <<"7">>

-----------------------------------------------------------------------------
(* deriveQuestionCategory *)

Categories ==
    {"violations", "attendance", "dressCode", "minorOffenses", "majorOffensesA",
     "majorOffensesB", "categoryC", "bullying", "appeals", "suspension",
     "expulsion", "general"}

\* the if-chain of deriveQuestionCategory, in source order
RuleOrder ==
    <<"dressCode", "attendance", "appeals", "bullying", "suspension", "expulsion",
      "categoryC", "majorOffensesB", "majorOffensesA", "minorOffenses", "violations">>

\* the regular expression of the rule that returns category c, tested on text
RuleMatches(c, text) ==
    CASE c = "dressCode" ->
            TestAny(text, {<<"d","r","e","s","s">>, <<"u","n","i","f","o","r","m">>, <<"g","r","o","o","m">>, <<"h","a","i","r">>, <<"a","t","t","i","r","e">>})
      [] c = "attendance" ->
            TestAny(text, {<<"a","t","t","e","n","d">>, <<"a","b","s","e","n">>, <<"t","a","r","d","y">>, <<"l","a","t","e">>})
      [] c = "appeals" ->
            TestAny(text, {<<"a","p","p","e","a","l">>, <<"c","h","a","l","l","e","n","g","e">>, <<"d","i","s","p","u","t","e">>, <<"c","o","n","t","e","s","t">>})
      [] c = "bullying" -> TestAny(text, {<<"b","u","l","l","y">>})
      [] c = "suspension" -> TestAny(text, {<<"s","u","s","p","e","n","d">>})
      [] c = "expulsion" -> TestAny(text, {<<"e","x","p","e","l">>, <<"e","x","p","u","l","s","i","o","n">>, <<"d","i","s","m","i","s","s">>})
      [] c = "categoryC" -> TestGap(text, <<"c","a","t","e","g","o","r","y">>, <<"c">>)
      [] c = "majorOffensesB" ->
            \/ TestGap(text, <<"c","a","t","e","g","o","r","y">>, <<"b">>)
            \/ TestAny(text, {<<"c","h","e","a","t">>, <<"p","l","a","g","i","a","r">>, <<"g","a","m","b","l">>, <<"a","l","c","o","h","o","l">>, <<"v","a","n","d","a","l">>})
      [] c = "majorOffensesA" ->
            \/ TestGap(text, <<"c","a","t","e","g","o","r","y">>, <<"a">>)
            \/ TestAny(text, {<<"d","i","s","r","e","s","p","e","c","t">>, <<"f","i","g","h","t">>, <<"p","d","a">>, <<"c","u","t","t","i","n","g">>, <<"r","e","c","o","r","d">>})
      [] c = "minorOffenses" ->
            \/ TestAny(text, {<<"m","i","n","o","r">>, <<"t","a","r","d","i">>, <<"l","o","i","t","e","r">>, <<"l","i","t","t","e","r">>})
            \/ TestGap(text, <<"i","d">>, <<"v","i","o","l","a","t","i","o","n">>)
      [] c = "violations" ->
            TestAny(text, {<<"v","i","o","l","a","t","i","o","n">>, <<"o","f","f","e","n","s","e">>, <<"r","u","l","e">>})
      [] OTHER -> FALSE

\* a classifier that falls through to the last rule's category
deriveQuestionCategoryNoDefault(q) ==
    LET text == toLowerCase(IF Truthy(q) THEN q.s ELSE <<>>)
    IN  IF RuleMatches("dressCode", text) THEN "dressCode"
        ELSE IF RuleMatches("attendance", text) THEN "attendance"
        ELSE IF RuleMatches("appeals", text) THEN "appeals"
        ELSE IF RuleMatches("bullying", text) THEN "bullying"
        ELSE IF RuleMatches("suspension", text) THEN "suspension"
        ELSE IF RuleMatches("expulsion", text) THEN "expulsion"
        ELSE IF RuleMatches("categoryC", text) THEN "categoryC"
        ELSE IF RuleMatches("majorOffensesB", text) THEN "majorOffensesB"
        ELSE IF RuleMatches("majorOffensesA", text) THEN "majorOffensesA"
        ELSE IF RuleMatches("minorOffenses", text) THEN "minorOffenses"
        ELSE "violations"

\* a classifier that tests the generic violation rule before the category rules
deriveQuestionCategoryGenericFirst(q) ==
    LET text == toLowerCase(IF Truthy(q) THEN q.s ELSE <<>>)
    IN  IF RuleMatches("dressCode", text) THEN "dressCode"
        ELSE IF RuleMatches("attendance", text) THEN "attendance"
        ELSE IF RuleMatches("appeals", text) THEN "appeals"
        ELSE IF RuleMatches("bullying", text) THEN "bullying"
        ELSE IF RuleMatches("suspension", text) THEN "suspension"
        ELSE IF RuleMatches("expulsion", text) THEN "expulsion"
        ELSE IF RuleMatches("violations", text) THEN "violations"
        ELSE IF RuleMatches("categoryC", text) THEN "categoryC"
        ELSE IF RuleMatches("majorOffensesB", text) THEN "majorOffensesB"
        ELSE IF RuleMatches("majorOffensesA", text) THEN "majorOffensesA"
        ELSE IF RuleMatches("minorOffenses", text) THEN "minorOffenses"
        ELSE "general"

deriveQuestionCategory(q) ==
    LET text == toLowerCase(IF Truthy(q) THEN q.s ELSE <<>>)
    IN  IF RuleMatches("dressCode", text) THEN "dressCode"
        ELSE IF RuleMatches("attendance", text) THEN "attendance"
        ELSE IF RuleMatches("appeals", text) THEN "appeals"
        ELSE IF RuleMatches("bullying", text) THEN "bullying"
        ELSE IF RuleMatches("suspension", text) THEN "suspension"
        ELSE IF RuleMatches("expulsion", text) THEN "expulsion"
        ELSE IF RuleMatches("categoryC", text) THEN "categoryC"
        ELSE IF RuleMatches("majorOffensesB", text) THEN "majorOffensesB"
        ELSE IF RuleMatches("majorOffensesA", text) THEN "majorOffensesA"
        ELSE IF RuleMatches("minorOffenses", text) THEN "minorOffenses"
        ELSE IF RuleMatches("violations", text) THEN "violations"
        ELSE "general"

\* a list that has an entry for general too
getCategoryListWithGeneral ==
    <<"violations", "attendance", "dressCode", "minorOffenses", "majorOffensesA",
      "majorOffensesB", "categoryC", "bullying", "appeals", "suspension", "expulsion", "general">>

\* getCategoryList: the keys, in source order
getCategoryList ==
    <<"violations", "attendance", "dressCode", "minorOffenses", "majorOffensesA",
      "majorOffensesB", "categoryC", "bullying", "appeals", "suspension", "expulsion">>

-----------------------------------------------------------------------------
(* CHATBOT_FAQ, getFAQAnswer, getSuggestionsForCategory *)

Null == [t |-> "null", s |-> <<>>]

\* (dress\s*code|uniform|groom)
ReDressTopic(s, S) ==
    ReGap(s, S, <<"d","r","e","s","s">>, <<"c","o","d","e">>) \cup ReAny(s, S, {<<"u","n","i","f","o","r","m">>, <<"g","r","o","o","m">>})

\* (violate|violation|break|penalt|penalty|sanction|consequence)
ReSanction(s, S) ==
    ReAny(s, S, {<<"v","i","o","l","a","t","e">>, <<"v","i","o","l","a","t","i","o","n">>, <<"b","r","e","a","k">>, <<"p","e","n","a","l","t">>, <<"p","e","n","a","l","t","y">>,
                 <<"s","a","n","c","t","i","o","n">>, <<"c","o","n","s","e","q","u","e","n","c","e">>})

\* (what\s+happens\s+if)\s+.*dress\s*code
ReWhatHappensIf(s, S) ==
    LET what    == ReSpaces1(s, ReLit(s, S, <<"w","h","a","t">>))
        happens == ReSpaces1(s, ReLit(s, what, <<"h","a","p","p","e","n","s">>))
        if      == ReSpaces1(s, ReLit(s, happens, <<"i","f">>))
    IN  ReGap(s, ReDots(s, if), <<"d","r","e","s","s">>, <<"c","o","d","e">>)

\* what\s+is\s+the\s+dress\s*code
ReWhatIsTheDressCode(s, S) ==
    LET what == ReSpaces1(s, ReLit(s, S, <<"w","h","a","t">>))
        is   == ReSpaces1(s, ReLit(s, what, <<"i","s">>))
        the  == ReSpaces1(s, ReLit(s, is, <<"t","h","e">>))
    IN  ReGap(s, the, <<"d","r","e","s","s">>, <<"c","o","d","e">>)

\* item.q.test(question) for the patterns of CHATBOT_FAQ; every pattern but
\* the catch-all has the i flag, so it is tested on the lower-cased question
FaqTest(pattern, question) ==
    LET s == toLowerCase(question)
        P == Positions(s)
    IN  CASE pattern = "dressSanctions" ->
                \/ ReWhatHappensIf(s, P) # {}
                \/ ReDressTopic(s, ReDots(s, ReSanction(s, P))) # {}
                \/ ReSanction(s, ReDots(s, ReDressTopic(s, P))) # {}
          [] pattern = "dressWhatIs" ->
                \/ ReWhatIsTheDressCode(s, P) # {}
                \/ TestAny(s, {<<"u","n","i","f","o","r","m">>, <<"g","r","o","o","m">>})
          [] pattern = "any" -> ReDots(question, Positions(question)) # {}
          [] OTHER -> FALSE

\* the answers, each cut after its first line or sentence
CHATBOT_FAQ ==
    [c \in {"dressCode", "attendance", "violations"} |->
        CASE c = "dressCode" ->
                [faqs |-> << [q |-> "dressSanctions", a |-> <<"D","r","e","s","s"," ","C","o","d","e"," ","s","a","n","c","t","i","o","n","s"," ","(","s","u","m","m","a","r","y",")",":">>],
                             [q |-> "dressWhatIs", a |-> <<"S","t","u","d","e","n","t","s"," ","m","u","s","t"," ","b","e"," ","p","r","e","s","e","n","t","a","b","l","e"," ","a","n","d"," ","m","o","d","e","s","t",".">>],
                             [q |-> "any", a |-> <<"D","r","e","s","s"," ","C","o","d","e"," ","h","i","g","h","l","i","g","h","t","s",":">>] >>,
                 keywords |-> <<<<"d","r","e","s","s">>, <<"u","n","i","f","o","r","m">>, <<"g","r","o","o","m">>, <<"h","a","i","r","c","u","t">>, <<"a","t","t","i","r","e">>, <<"c","l","o","t","h","i","n","g">>>>]
          [] c = "attendance" ->
                [faqs |-> << [q |-> "any", a |-> <<"A","b","s","e","n","c","e","s"," ","o","v","e","r"," ","2","0","%"," ","o","f"," ","c","l","a","s","s"," ","d","a","y","s"," ","m","a","y"," ","l","e","a","d"," ","t","o"," ","f","a","i","l","i","n","g"," ","g","r","a","d","e"," ","u","n","l","e","s","s"," ","e","x","c","u","s","e","d",".">>] >>,
                 keywords |-> <<<<"a","t","t","e","n","d","a","n","c","e">>, <<"a","b","s","e","n","t">>, <<"t","a","r","d","y">>, <<"l","a","t","e">>>>]
          [] OTHER ->
                [faqs |-> << [q |-> "any", a |-> <<"V","i","o","l","a","t","i","o","n","s"," ","a","r","e"," ","c","l","a","s","s","i","f","i","e","d"," ","a","s"," ","M","i","n","o","r"," ","O","f","f","e","n","s","e","s",","," ","M","a","j","o","r"," ","O","f","f","e","n","s","e","s"," ","(","C","a","t","e","g","o","r","y"," ","A","/","B",")",","," ","a","n","d"," ","C","a","t","e","g","o","r","y"," ","C"," ","(","D","e","s","t","r","u","c","t","i","v","e"," ","&"," ","H","a","r","m","f","u","l",")",".">>] >>,
                 keywords |-> <<<<"v","i","o","l","a","t","i","o","n">>, <<"o","f","f","e","n","s","e">>, <<"r","u","l","e">>>>]]

\* a resolver that answers with the first rule of the table without testing it
getFAQAnswerFirstRule(category, question) ==
    IF category \notin DOMAIN CHATBOT_FAQ THEN Null
    ELSE Str(CHATBOT_FAQ[category].faqs[1].a)

\* a resolver in which the last matching rule wins
getFAQAnswerLastMatch(category, question) ==
    IF category \notin DOMAIN CHATBOT_FAQ THEN Null
    ELSE LET faqs == CHATBOT_FAQ[category].faqs
             hits == {i \in 1..Len(faqs) : FaqTest(faqs[i].q, StringOf(question))}
         IN  IF hits # {}
             THEN Str(faqs[CHOOSE i \in hits : \A j \in hits : i >= j].a)
             ELSE IF Len(faqs) > 0 /\ faqs[1].a # <<>> THEN Str(faqs[1].a) ELSE Null

getFAQAnswer(category, question) ==
    IF category \notin DOMAIN CHATBOT_FAQ THEN Null
    ELSE LET faqs == CHATBOT_FAQ[category].faqs
             hits == {i \in 1..Len(faqs) : FaqTest(faqs[i].q, StringOf(question))}
         IN  IF hits # {}
             THEN Str(faqs[CHOOSE i \in hits : \A j \in hits : i <= j].a)
             ELSE IF Len(faqs) > 0 /\ faqs[1].a # <<>> THEN Str(faqs[1].a) ELSE Null

\* the keys of the suggestion table s of getSuggestionsForCategory
SuggestionKeys ==
    {"violations", "attendance", "dressCode", "minorOffenses", "majorOffensesA",
     "majorOffensesB", "categoryC", "bullying", "suspension", "expulsion",
     "appeals", "general"}

\* the suggestion table s of getSuggestionsForCategory
Suggestions ==
    [c \in SuggestionKeys |->
        CASE c = "violations" ->
                <<"What are the violation categories?", "What happens if I break a rule?",
                  "How are violations classified?">>
          [] c = "attendance" ->
                <<"What is the attendance policy?", "How many absences are allowed?",
                  "What are sanctions for tardiness?">>
          [] c = "dressCode" ->
                <<"What is the dress code?", "What are the grooming rules?",
                  "What happens if I violate dress code?">>
          [] c = "minorOffenses" ->
                <<"What are minor offenses?", "Sanctions for minor violations",
                  "Examples of minor offenses">>
          [] c = "majorOffensesA" ->
                <<"What are Major Offenses Category A?", "Sanctions for Category A offenses",
                  "What happens for repeated violations?">>
          [] c = "majorOffensesB" ->
                <<"What are Major Offenses Category B?", "What is the penalty for cheating?",
                  "Sanctions for Category B offenses">>
          [] c = "categoryC" ->
                <<"What are Category C offenses?", "Consequences for drugs or weapons?",
                  "Fraternities or hazing consequences">>
          [] c = "bullying" ->
                <<"What happens if I bully someone?", "How is bullying handled?",
                  "Anti-bullying policy">>
          [] c = "suspension" ->
                <<"What is the suspension policy?", "How long can I be suspended?",
                  "What happens during suspension?">>
          [] c = "expulsion" ->
                <<"What is expulsion?", "When can I be expelled?", "Consequences of expulsion">>
          [] c = "appeals" ->
                <<"How do I appeal a decision?", "What is the appeals process?",
                  "Can I challenge a violation?">>
          [] OTHER ->
                <<"What are the violation types?", "What is the dress code?",
                  "What are the attendance rules?">>]

\* a table looked up without its own entries: s.general for every category
getSuggestionsForCategoryGeneral(cat) == Suggestions["general"]

\* s[cat] || s.general
getSuggestionsForCategory(cat) ==
    IF cat \in SuggestionKeys THEN Suggestions[cat] ELSE Suggestions["general"]

-----------------------------------------------------------------------------
(* extractTopHandbookPassages and extractTopHandbookPassagesFocused *)

DefaultMaxPassages == 3

DefaultMinLen == 40

\* an options object: has* tells whether the property is given
Options(hasMax, maxPassages, hasMinLen, minLen) ==
    [hasMax |-> hasMax, maxPassages |-> maxPassages, hasMinLen |-> hasMinLen, minLen |-> minLen]

RECURSIVE Collapse(_)
\* replace(/\s+/g, ' ')
Collapse(s) ==
    IF s = <<>> THEN <<>>
    ELSE IF IsSpace(Head(s)) THEN <<" ">> \o Collapse(TrimStart(Tail(s)))
    ELSE <<Head(s)>> \o Collapse(Tail(s))

\* replace(/[^a-z0-9\s]/g, ' ')
Clean(s) == [i \in 1..Len(s) |-> IF IsAlnum(s[i]) \/ IsSpace(s[i]) THEN s[i] ELSE " "]

normalize(s) == trim(Collapse(Clean(toLowerCase(s))))

stopwords ==
    {<<"t","h","e">>, <<"a">>, <<"a","n">>, <<"a","n","d">>, <<"o","r">>, <<"b","u","t">>, <<"i","f">>, <<"t","h","e","n">>, <<"e","l","s","e">>, <<"f","o","r">>,
     <<"t","o">>, <<"o","f">>, <<"i","n">>, <<"o","n">>, <<"a","t">>, <<"b","y">>, <<"w","i","t","h">>, <<"f","r","o","m">>, <<"a","s">>, <<"i","s">>,
     <<"a","r","e">>, <<"w","a","s">>, <<"w","e","r","e">>, <<"b","e">>, <<"b","e","i","n","g">>, <<"b","e","e","n">>, <<"t","h","i","s">>, <<"t","h","a","t">>,
     <<"t","h","e","s","e">>, <<"t","h","o","s","e">>, <<"i","t">>, <<"i","t","s">>, <<"d","o">>, <<"d","o","e","s">>, <<"d","i","d">>, <<"c","a","n">>, <<"c","o","u","l","d">>,
     <<"s","h","o","u","l","d">>, <<"w","o","u","l","d">>, <<"m","a","y">>, <<"m","i","g","h","t">>, <<"w","i","l","l">>, <<"s","h","a","l","l">>, <<"y","o","u","r">>, <<"y","o","u">>,
     <<"w","e">>, <<"o","u","r">>, <<"t","h","e","y">>, <<"t","h","e","i","r">>}

IsQToken(t) == t # <<>> /\ t \notin stopwords

IsNonEmpty(t) == t # <<>>

\* qTokens of the plain ranker
PlainQTokens(question) == SelectSeq(SplitChar(normalize(question), " "), IsQToken)

\* the bigrams of a token array, each "t1 t2"
Bigrams(tokens) == {tokens[i] \o <<" ">> \o tokens[i + 1] : i \in 1..(Len(tokens) - 1)}

\* the end of the match of /\n\s*\n+/ that begins at i (0 when there is none):
\* both quantifiers are greedy, so the match ends after the last newline of
\* the run of white space that begins at i
SeparatorEnd(s, i) ==
    LET ends == ReNewlines1(s, ReSpaces(s, ReLit(s, {i}, <<NL>>)))
    IN  IF ends = {} THEN 0 ELSE CHOOSE e \in ends : \A f \in ends : f <= e

RECURSIVE SplitParagraphs(_)
\* fullText.split(/\n\s*\n+/)
SplitParagraphs(s) ==
    LET starts == {i \in 1..Len(s) : SeparatorEnd(s, i) # 0}
    IN  IF starts = {} THEN <<s>>
        ELSE LET i == CHOOSE i \in starts : \A j \in starts : i <= j
             IN  <<SubSeq(s, 1, i - 1)>> \o SplitParagraphs(SubSeq(s, SeparatorEnd(s, i), Len(s)))

\* .map(p => p.trim())
TrimAll(paras) == [i \in 1..Len(paras) |-> trim(paras[i])]

\* the paragraphs of the plain ranker: trimmed, of at least minLen characters
PlainParagraphs(fullText, minLen) ==
    LET AtLeastMinLen(p) == Len(p) >= minLen
    IN  SelectSeq(TrimAll(SplitParagraphs(fullText)), AtLeastMinLen)

\* a score that gives the bigrams of the question no weight
PlainScoreNoBigrams(question, p) ==
    LET qTokenSet == Range(PlainQTokens(question))
        pTokens   == SelectSeq(SplitChar(normalize(p), " "), IsNonEmpty)
    IN  Cardinality({i \in 1..Len(pTokens) : pTokens[i] \in qTokenSet})
          + Cardinality(Range(pTokens) \cap qTokenSet)

\* unigramScore + bigramScore + distinctOverlap of paragraph p
PlainScore(question, p) ==
    LET qTokens   == PlainQTokens(question)
        qTokenSet == Range(qTokens)
        qBigrams  == Bigrams(qTokens)
        pTokens   == SelectSeq(SplitChar(normalize(p), " "), IsNonEmpty)
        unigramScore == Cardinality({i \in 1..Len(pTokens) : pTokens[i] \in qTokenSet})
        bigramScore  == 2 * Cardinality({i \in 1..(Len(pTokens) - 1) :
                            (pTokens[i] \o <<" ">> \o pTokens[i + 1]) \in qBigrams})
        distinctOverlap == Cardinality(Range(pTokens) \cap qTokenSet)
    IN  unigramScore + bigramScore + distinctOverlap

RECURSIVE InsertByScore(_, _)
InsertByScore(x, sorted) ==
    IF sorted = <<>> THEN <<x>>
    ELSE IF Head(sorted).score >= x.score THEN <<Head(sorted)>> \o InsertByScore(x, Tail(sorted))
    ELSE <<x>> \o sorted

\* a sort that leaves the array in document order
SortByScoreNot(scored) == scored

RECURSIVE SortByScore(_)
\* scored.sort((a, b) => b.score - a.score): descending, stable
SortByScore(scored) ==
    IF scored = <<>> THEN <<>>
    ELSE InsertByScore(scored[Len(scored)], SortByScore(SubSeq(scored, 1, Len(scored) - 1)))

HasScore(x) == x.score > 0

Texts(scored) == [i \in 1..Len(scored) |-> scored[i].text]

\* what a call gives: the array it returns, or the TypeError it throws
Return(list) == [threw |-> FALSE, list |-> list]

TypeError == [threw |-> TRUE, list |-> <<>>]

\* the body of the plain ranker after its guard: normalize(question) and
\* fullText.split throw a TypeError on a value that is not a string
PlainRanked(question, fullText, options) ==
    LET maxPassages == IF options.hasMax THEN options.maxPassages ELSE DefaultMaxPassages
        minLen      == IF options.hasMinLen THEN options.minLen ELSE DefaultMinLen
    IN  IF question.t # "str" \/ fullText.t # "str" THEN TypeError
        ELSE LET paragraphs == PlainParagraphs(fullText.s, minLen)
                 scored == [i \in 1..Len(paragraphs) |->
                               [idx |-> i - 1, score |-> PlainScore(question.s, paragraphs[i]), text |-> paragraphs[i]]]
             IN  Return(Texts(SelectSeq(Slice0(SortByScore(scored), maxPassages), HasScore)))

\* a plain ranker without the guard of its first line
extractTopHandbookPassagesNoGuard(question, fullText, options) ==
    PlainRanked(question, fullText, options)

extractTopHandbookPassages(question, fullText, options) ==
    IF ~Truthy(question) \/ ~Truthy(fullText) THEN Return(<<>>)
    ELSE PlainRanked(question, fullText, options)

\* lowerFocus
LowerFocus(focusKeywords) == [i \in 1..Len(focusKeywords) |-> toLowerCase(focusKeywords[i])]

\* paras of the focused ranker: trimmed, non-empty
FocusedParagraphs(fullText) == SelectSeq(TrimAll(SplitParagraphs(fullText)), IsNonEmpty)

\* a pool without the fallback to every paragraph
FocusedPoolNoFallback(fullText, focusKeywords) ==
    LET lowerFocus == LowerFocus(focusKeywords)
        paras == FocusedParagraphs(fullText)
        HoldsFocus(p) == \E k \in 1..Len(lowerFocus) : includes(toLowerCase(p), lowerFocus[k])
    IN  IF Len(lowerFocus) > 0 THEN SelectSeq(paras, HoldsFocus) ELSE paras

\* pool: the paragraphs that hold a focus keyword, or all of them when none does
FocusedPool(fullText, focusKeywords) ==
    LET lowerFocus == LowerFocus(focusKeywords)
        paras == FocusedParagraphs(fullText)
        HoldsFocus(p) == \E k \in 1..Len(lowerFocus) : includes(toLowerCase(p), lowerFocus[k])
        pool == SelectSeq(paras, HoldsFocus)
    IN  IF Len(lowerFocus) > 0 /\ pool # <<>> THEN pool ELSE paras

\* a focused score made of the token, stopword and bigram signal of the plain ranker
FocusedScoreAsPlain(question, p, focusKeywords) == PlainScore(StringOf(question), p)

\* the score of paragraph p in the focused ranker
FocusedScore(question, p, focusKeywords) ==
    LET lp == toLowerCase(p)
        qTokens == AlnumTokens(toLowerCase(StringOf(question)))
        lowerFocus == LowerFocus(focusKeywords)
    IN  2 * Cardinality({i \in 1..Len(qTokens) : includes(lp, qTokens[i])})
          + Cardinality({i \in 1..Len(lowerFocus) : includes(lp, lowerFocus[i])})

\* options.maxPassages || 3
FocusedMaxPassages(options) ==
    IF options.hasMax /\ options.maxPassages # 0 THEN options.maxPassages ELSE DefaultMaxPassages

extractTopHandbookPassagesFocused(question, fullText, focusKeywords, options) ==
    LET maxPassages == FocusedMaxPassages(options)
    IN  IF ~Truthy(fullText) THEN Return(<<>>)
        ELSE IF fullText.t # "str" THEN TypeError
        ELSE LET pool == FocusedPool(fullText.s, focusKeywords)
                 scored == [i \in 1..Len(pool) |->
                               [score |-> FocusedScore(question, pool[i], focusKeywords), text |-> pool[i]]]
             IN  Return(Texts(SelectSeq(Slice0(SortByScore(scored), maxPassages), HasScore)))

-----------------------------------------------------------------------------
(* The rate limiter *)

RATE_LIMIT_WINDOW == 60000

MAX_REQUESTS_PER_WINDOW == 10

RECURSIVE SumCounts(_)
\* Array.from(requestCounts.values()).reduce((sum, count) => sum + count, 0)
SumCounts(counts) ==
    IF DOMAIN counts = {} THEN 0
    ELSE LET t == CHOOSE t \in DOMAIN counts : TRUE
         IN  counts[t] + SumCounts([u \in DOMAIN counts \ {t} |-> counts[u]])

\* a limiter that never deletes an entry of the map
checkRateLimitNoCleanup(t, counts) ==
    LET currentMinute == (t \div 60000) * 60000
    IN  IF SumCounts(counts) >= MAX_REQUESTS_PER_WINDOW
        THEN [threw |-> TRUE, counts |-> counts]
        ELSE [threw |-> FALSE,
              counts |-> [u \in DOMAIN counts \cup {currentMinute} |->
                            IF u = currentMinute
                            THEN (IF u \in DOMAIN counts THEN counts[u] ELSE 0) + 1
                            ELSE counts[u]]]

\* checkRateLimit at time t on the map counts: whether it throws, and the map
\* it leaves (the old entries are deleted before the limit is tested)
checkRateLimit(t, counts) ==
    LET windowStart == t - RATE_LIMIT_WINDOW
        cleaned == [u \in {v \in DOMAIN counts : ~(v < windowStart)} |-> counts[u]]
        currentRequests == SumCounts(cleaned)
        currentMinute == (t \div 60000) * 60000
    IN  IF currentRequests >= MAX_REQUESTS_PER_WINDOW
        THEN [threw |-> TRUE, counts |-> cleaned]
        ELSE [threw |-> FALSE,
              counts |-> [u \in DOMAIN cleaned \cup {currentMinute} |->
                            IF u = currentMinute
                            THEN (IF u \in DOMAIN cleaned THEN cleaned[u] ELSE 0) + 1
                            ELSE cleaned[u]]]

\* no direct call of checkRateLimit yet
NoCalls == [returned |-> [t \in {} |-> 0], last |-> "none"]

\* a direct call of checkRateLimit at the time of the clock; the calls that
\* returned more than a window ago are forgotten
CallCheckRateLimit ==
    LET rl == checkRateLimit(now, requestCounts)
        recent == {t \in DOMAIN calls.returned : t > now - RATE_LIMIT_WINDOW}
        times == IF rl.threw THEN recent ELSE recent \cup {now}
    IN  /\ requestCounts' = rl.counts
        /\ calls' = [returned |-> [t \in times |->
                                     (IF t \in recent THEN calls.returned[t] ELSE 0)
                                       + (IF t = now /\ ~rl.threw THEN 1 ELSE 0)],
                     last |-> IF rl.threw THEN "threw" ELSE "returned"]
        /\ UNCHANGED <<now, handbook, res, args, ret, pushVars, siteVars>>

-----------------------------------------------------------------------------
(* The HTTP handlers *)

\* readFileSync or pdfParse throws
Unreadable == [t |-> "unreadable", s |-> <<>>]

NotFoundText == <<"N","o"," ","d","i","r","e","c","t","l","y"," ","r","e","l","e","v","a","n","t"," ","s","e","c","t","i","o","n"," ","f","o","u","n","d"," ","i","n"," ","t","h","e"," ","h","a","n","d","b","o","o","k"," ","f","o","r"," ","t","h","a","t"," ","q","u","e","s","t","i","o","n",".">>

\* a response: the request it answers, the status and the body's fields;
\* read tells whether the handler called readFileSync
Response(op, q, status, error, text, category, source, suggestions, read) ==
    [op |-> op, q |-> q, status |-> status, error |-> error, text |-> text,
     category |-> category, source |-> source, suggestions |-> suggestions, read |-> read]

ErrorResponse(op, q, status, error, read) ==
    Response(op, q, status, error, <<>>, "none", "none", <<>>, read)

NoResponse == ErrorResponse("none", Undefined, 0, "none", FALSE)

\* data.text || ''
PdfText(file) == IF Truthy(file) THEN file ELSE Str(<<>>)

\* a || b on strings
OrElse(a, b) == IF a # <<>> THEN a ELSE b

\* the handler of POST /api/ask-handbook after checkRateLimit has returned
AskHandbookChecked(q, file) ==
    IF ~Truthy(q) \/ q.t # "str" \/ Len(trim(q.s)) = 0
    THEN ErrorResponse("ask-handbook", q, 400, "Question is required.", FALSE)
    ELSE IF file = Unreadable
    THEN ErrorResponse("ask-handbook", q, 500, "ENOENT: no such file or directory", TRUE)
    ELSE LET passages == extractTopHandbookPassages(q, PdfText(file), Options(TRUE, 3, FALSE, 0))
         IN  IF passages.threw
             THEN ErrorResponse("ask-handbook", q, 500, "TypeError", TRUE)
             ELSE IF Len(passages.list) = 0
             THEN Response("ask-handbook", q, 200, "none", NotFoundText, "none", "none", <<>>, TRUE)
             ELSE Response("ask-handbook", q, 200, "none", Flatten(passages.list, <<NL, NL>>),
                           "none", "none", <<>>, TRUE)

\* the handbook text the handler of POST /api/chatbot/ask gets inside its
\* inner try block, '' when anything in the block throws
ChatbotHandbookText(q, cat, file) ==
    IF file = Unreadable THEN <<>>
    ELSE LET focusKeywords == IF cat \in DOMAIN CHATBOT_FAQ THEN CHATBOT_FAQ[cat].keywords ELSE <<>>
             passages == extractTopHandbookPassagesFocused(q, PdfText(file), focusKeywords,
                                                           Options(TRUE, 2, FALSE, 0))
         IN  IF passages.threw THEN <<>> ELSE Flatten(passages.list, <<NL, NL>>)

\* a composer that prefers the handbook passages to the FAQ answer
ChatbotAskHandbookFirst(q, file) ==
    IF ~Truthy(q) \/ q.t # "str"
    THEN ErrorResponse("chatbot-ask", q, 400, "Question is required", FALSE)
    ELSE LET cat == deriveQuestionCategory(q)
             faqAnswer == getFAQAnswer(cat, q)
             handbookText == ChatbotHandbookText(q, cat, file)
             finalText == OrElse(handbookText, OrElse(faqAnswer.s, NotFoundText))
         IN  Response("chatbot-ask", q, 200, "none", finalText, cat,
                      IF Truthy(faqAnswer) THEN "FAQ" ELSE "Student Handbook",
                      getSuggestionsForCategory(cat), TRUE)

\* the handler of POST /api/chatbot/ask
ChatbotAsk(q, file) ==
    IF ~Truthy(q) \/ q.t # "str"
    THEN ErrorResponse("chatbot-ask", q, 400, "Question is required", FALSE)
    ELSE LET cat == deriveQuestionCategory(q)
             faqAnswer == getFAQAnswer(cat, q)
             handbookText == ChatbotHandbookText(q, cat, file)
             finalText == OrElse(faqAnswer.s, OrElse(handbookText, NotFoundText))
         IN  Response("chatbot-ask", q, 200, "none", finalText, cat,
                      IF Truthy(faqAnswer) THEN "FAQ" ELSE "Student Handbook",
                      getSuggestionsForCategory(cat), TRUE)

\* how many minutes of the clock the model covers after the first
MaxMinutes == 2

\* the instants at which requests arrive: the first and the last millisecond
\* of a minute bucket, and the millisecond after its first
TimePoints == {m * 60000 + o : m \in 0..MaxMinutes, o \in {0, 1, 59999}}

\* the questions the clients send
EndpointQuestions ==
    {Undefined, NotAString, Str(<<>>), Str(<<" "," ">>), Str(<<"W","h","a","t"," ","i","s"," ","t","h","e"," ","d","r","e","s","s"," ","c","o","d","e","?">>),
     Str(<<"H","o","w"," ","i","s"," ","b","u","l","l","y","i","n","g"," ","h","a","n","d","l","e","d","?">>), Str(<<"z","z","z">>),
     Str(<<"W","h","a","t"," ","a","r","e"," ","t","h","e"," ","p","e","n","a","l","t","i","e","s"," ","f","o","r"," ","a"," ","U","n","i","f","o","r","m"," ","v","i","o","l","a","t","i","o","n","?">>), Str(<<"I","s"," ","l","o","n","g"," ","h","a","i","r"," ","a","l","l","o","w","e","d","?">>)}

HandbookText ==
    <<"S","t","u","d","e","n","t"," ","H","a","n","d","b","o","o","k",NL,NL,"B","u","l","l","y","i","n","g"," ","o","f"," ","a","n","y"," ","k","i","n","d"," ","i","s"," ","h","a","n","d","l","e","d"," ","b","y"," ","t","h","e"," ","d","i","s","c","i","p","l","i","n","e"," ","o","f","f","i","c","e",".",NL,NL>> \o
    <<"B","u","l","l","y","i","n","g",":"," ","s","e","e"," ","p","a","g","e"," ","1","2",NL," ",NL,"S","t","u","d","e","n","t","s"," ","w","e","a","r"," ","t","h","e"," ","s","c","h","o","o","l"," ","u","n","i","f","o","r","m"," ","a","n","d"," ","t","h","e"," ","I","D"," ","a","t"," ","a","l","l"," ","t","i","m","e","s",".",NL,NL>> \o
    <<"B","u","l","l","y","i","n","g"," ","i","s"," ","r","e","p","o","r","t","e","d"," ","t","o"," ","t","h","e"," ","a","d","v","i","s","e","r",","," ","w","h","o"," ","i","n","f","o","r","m","s"," ","t","h","e"," ","p","a","r","e","n","t","s",".",NL>>

Handbooks == {Unreadable, Str(<<>>), Str(HandbookText)}

\* the handlers' responses to every question on every handbook file
AskHandbookResponses ==
    [q \in EndpointQuestions, file \in Handbooks |-> AskHandbookChecked(q, file)]

ChatbotAskResponses ==
    [q \in EndpointQuestions, file \in Handbooks |-> ChatbotAsk(q, file)]

InitServer ==
    /\ now = 0
    /\ requestCounts = [t \in {} |-> 0]
    /\ handbook \in Handbooks
    /\ res = NoResponse

\* time passes
Tick ==
    /\ \E t \in TimePoints : t > now /\ now' = t
    /\ UNCHANGED <<requestCounts, handbook, res, args, ret, pushVars, calls, siteVars>>

\* POST /api/ask-handbook (pattern-based)
AskHandbook ==
    \E q \in EndpointQuestions :
        LET rl == checkRateLimit(now, requestCounts)
        IN  /\ requestCounts' = rl.counts
            /\ res' = IF rl.threw
                      THEN ErrorResponse("ask-handbook", q, 500,
                               "Rate limit exceeded. Please wait before making another request.", FALSE)
                      ELSE AskHandbookResponses[q, handbook]
            /\ UNCHANGED <<now, handbook, args, ret, pushVars, calls, siteVars>>

\* POST /api/ask-handbook of the variant that asks a language model: the
\* model's answer is not modelled, the call succeeds or throws
AskHandbookLLM ==
    \E q \in EndpointQuestions : \E ok \in BOOLEAN :
        /\ res' = IF handbook = Unreadable
                  THEN ErrorResponse("ask-handbook-llm", q, 500, "ENOENT: no such file or directory", TRUE)
                  ELSE IF ok
                  THEN Response("ask-handbook-llm", q, 200, "none", <<"(","t","h","e"," ","m","o","d","e","l","'","s"," ","a","n","s","w","e","r",")">>,
                                "none", "none", <<>>, TRUE)
                  ELSE ErrorResponse("ask-handbook-llm", q, 500, "model error", TRUE)
        /\ UNCHANGED <<now, requestCounts, handbook, args, ret, pushVars, calls, siteVars>>

\* POST /api/chatbot/ask
PostChatbotAsk ==
    \E q \in EndpointQuestions :
        /\ res' = ChatbotAskResponses[q, handbook]
        /\ UNCHANGED <<now, requestCounts, handbook, args, ret, pushVars, calls, siteVars>>

\* GET /api/chatbot/categories
GetCategories ==
    /\ res' = Response("categories", Undefined, 200, "none", <<>>, "none", "none",
                       getCategoryList, FALSE)
    /\ UNCHANGED <<now, requestCounts, handbook, args, ret, pushVars, calls, siteVars>>

\* POST /api/analyze-personality and POST /api/report-suggestion: checkRateLimit,
\* then a call of the language model that succeeds or throws
OtherRateLimited ==
    \E op \in {"analyze-personality", "report-suggestion"} : \E ok \in BOOLEAN :
        LET rl == checkRateLimit(now, requestCounts)
        IN  /\ requestCounts' = rl.counts
            /\ res' = IF rl.threw
                      THEN ErrorResponse(op, Undefined, 500,
                               "Rate limit exceeded. Please wait before making another request.", FALSE)
                      ELSE ErrorResponse(op, Undefined, IF ok THEN 200 ELSE 500,
                                         IF ok THEN "none" ELSE "model error", FALSE)
            /\ UNCHANGED <<now, handbook, args, ret, pushVars, calls, siteVars>>

-----------------------------------------------------------------------------
(* The push-token registry: /push/register, /push/deactivate and the sends *)

\* the most rows the table gets
MaxRows == 2

\* the most /push/register handlers between their select and their write
MaxInFlight == 2

\* the users: a student and a disciplinary officer
UserIds == {"student", "officer"}

\* getDOUserIds(): the active users with an officer's role
getDOUserIds == {"officer"}

\* the Expo push token of the device of each user
DeviceOf(userId) == IF userId = "student" THEN "ExponentPushToken[a]" ELSE "ExponentPushToken[b]"

\* the bodies {userId, expoPushToken} the clients send
Registrations == {<<userId, DeviceOf(userId)>> : userId \in UserIds}

\* the two servers: /push/register that selects and then inserts or updates,
\* and /push/register that upserts
Variants == {"select-then-write", "upsert"}

Row(userId, token, active) == [user_id |-> userId, push_token |-> token, is_active |-> active]

\* the ids of the rows .eq('user_id', userId).eq('push_token', token) selects
RowsOf(rows, userId, token) ==
    {i \in 1..Len(rows) : rows[i].user_id = userId /\ rows[i].push_token = token}

\* .select(...).single(): the row when exactly one matches; PGRST116, which
\* the handler takes for "no row", when none or several match; 0 is no row
Single(rows, userId, token) ==
    LET ids == RowsOf(rows, userId, token)
    IN  IF Cardinality(ids) = 1 THEN CHOOSE i \in ids : TRUE ELSE 0

\* .update({is_active: active}) of the rows in ids
UpdateActive(rows, ids, active) ==
    [i \in 1..Len(rows) |-> IF i \in ids THEN [rows[i] EXCEPT !.is_active = active] ELSE rows[i]]

\* .select('push_token').eq('is_active', true) of the rows of the users
ActiveTokens(rows, users) ==
    LET IsActiveOf(r) == r.is_active /\ r.user_id \in users
        active == SelectSeq(rows, IsActiveOf)
    IN  [i \in 1..Len(active) |-> [user_id |-> active[i].user_id, push_token |-> active[i].push_token]]

PushResponse(op, userId, token, status, sent, to) ==
    [op |-> op, userId |-> userId, token |-> token, status |-> status, sent |-> sent, to |-> to]

NoPushResponse == PushResponse("none", "none", "none", 0, 0, <<>>)

\* the registry before any /push request
InitPush ==
    /\ variant \in Variants
    /\ uniqueIndex \in BOOLEAN
    /\ variant = "upsert" => uniqueIndex
    /\ user_push_tokens = <<>>
    /\ registering = EmptyBag
    /\ pushRes = NoPushResponse
    /\ deactivated = {}

\* the registry of a server that gets no /push request
PushIdle ==
    /\ variant = "select-then-write"
    /\ uniqueIndex = TRUE
    /\ user_push_tokens = <<>>
    /\ registering = EmptyBag
    /\ pushRes = NoPushResponse
    /\ deactivated = {}

\* POST /push/register without userId or expoPushToken
RegisterIncomplete ==
    \E userId \in UserIds :
        /\ pushRes' = PushResponse("register", userId, "none", 400, 0, <<>>)
        /\ UNCHANGED <<variant, uniqueIndex, user_push_tokens, registering, deactivated, engineVars, siteVars>>

\* POST /push/register, first server: the select of the existing row
RegisterSelect ==
    \E <<userId, token>> \in Registrations :
        /\ variant = "select-then-write"
        /\ BagCardinality(registering) < MaxInFlight
        /\ registering' = registering (+) SetToBag({
               [userId |-> userId, token |-> token,
                existingToken |-> Single(user_push_tokens, userId, token)]})
        /\ deactivated' = deactivated \ {<<userId, token>>}
        /\ UNCHANGED <<variant, uniqueIndex, user_push_tokens, pushRes, engineVars, siteVars>>

\* POST /push/register, first server: the update of the row found, or the
\* insert of a new row, which the unique index refuses when the pair is there
RegisterWrite ==
    \E r \in BagToSet(registering) :
        LET left == registering (-) SetToBag({r})
            conflict == uniqueIndex /\ RowsOf(user_push_tokens, r.userId, r.token) # {}
        IN  /\ r.existingToken = 0 /\ ~conflict => Len(user_push_tokens) < MaxRows
            /\ registering' = left
            /\ user_push_tokens' =
                  IF r.existingToken # 0
                  THEN UpdateActive(user_push_tokens, {r.existingToken}, TRUE)
                  ELSE IF conflict THEN user_push_tokens
                  ELSE Append(user_push_tokens, Row(r.userId, r.token, TRUE))
            /\ pushRes' = PushResponse("register", r.userId, r.token,
                              IF r.existingToken = 0 /\ conflict THEN 500 ELSE 200, 0, <<>>)
            /\ deactivated' = deactivated \ {<<r.userId, r.token>>}
            /\ UNCHANGED <<variant, uniqueIndex, engineVars, siteVars>>

\* POST /push/register, second server: one upsert on (user_id, push_token)
RegisterUpsert ==
    \E <<userId, token>> \in Registrations :
        LET ids == RowsOf(user_push_tokens, userId, token)
        IN  /\ variant = "upsert"
            /\ ids = {} => Len(user_push_tokens) < MaxRows
            /\ user_push_tokens' =
                  IF ids # {} THEN UpdateActive(user_push_tokens, ids, TRUE)
                  ELSE Append(user_push_tokens, Row(userId, token, TRUE))
            /\ pushRes' = PushResponse("register", userId, token, 200, 0, <<>>)
            /\ deactivated' = deactivated \ {<<userId, token>>}
            /\ UNCHANGED <<variant, uniqueIndex, registering, engineVars, siteVars>>

\* the property of the body in which each server looks for the token
TokenField == IF variant = "upsert" THEN "pushToken" ELSE "expoPushToken"

\* POST /push/deactivate with {userId, <field>: token}
Deactivate ==
    \E <<userId, token>> \in Registrations, field \in {"expoPushToken", "pushToken"} :
        /\ IF field # TokenField
           THEN /\ pushRes' = PushResponse("deactivate", userId, token, 400, 0, <<>>)
                /\ UNCHANGED user_push_tokens
           ELSE /\ pushRes' = PushResponse("deactivate", userId, token, 200, 0, <<>>)
                /\ user_push_tokens' =
                      UpdateActive(user_push_tokens, RowsOf(user_push_tokens, userId, token), FALSE)
        /\ deactivated' =
              IF field = "expoPushToken" /\ \A r \in BagToSet(registering) :
                                               <<r.userId, r.token>> # <<userId, token>>
              THEN deactivated \cup {<<userId, token>>}
              ELSE deactivated
        /\ UNCHANGED <<variant, uniqueIndex, registering, engineVars, siteVars>>

\* sent or count of a response that has neither
Absent == -1

\* the response of a send to the active tokens of the users: 0 sent when
\* there are none; otherwise the messages go to sendExpoPush, which succeeds
\* or fails
SendResponse(op, userId, users, ok, failStatus) ==
    LET tokens == ActiveTokens(user_push_tokens, users)
    IN  IF tokens = <<>> THEN PushResponse(op, userId, "none", 200, 0, <<>>)
        ELSE IF ok THEN PushResponse(op, userId, "none", 200, Len(tokens), tokens)
        ELSE PushResponse(op, userId, "none", failStatus, 0, tokens)

\* POST /push/send-to-student: when sendExpoPush fails the first server
\* reports 0 sent, the second answers 500
SendToStudent ==
    \E studentId \in UserIds, ok \in BOOLEAN :
        /\ pushRes' = SendResponse("send-to-student", studentId, {studentId}, ok,
                                   IF variant = "upsert" THEN 500 ELSE 200)
        /\ UNCHANGED <<variant, uniqueIndex, user_push_tokens, registering, deactivated, engineVars, siteVars>>

\* POST /push/chat-message-notification: the first server sends to the
\* recipient; the second relays to /push/send-to-student or /push/send-to-dos
\* and answers with the count of that response, which a response of 0 sent
\* does not have
ChatMessageNotification ==
    \E recipientId \in UserIds, recipientType \in {"student", "do"}, ok \in BOOLEAN :
        LET op == "chat-message-notification"
            relayed == IF recipientType = "student"
                       THEN SendResponse(op, recipientId, {recipientId}, ok, 500)
                       ELSE SendResponse(op, recipientId, getDOUserIds, ok, 200)
        IN  /\ pushRes' = IF variant = "select-then-write"
                          THEN SendResponse(op, recipientId, {recipientId}, ok, 200)
                          ELSE IF relayed.to = <<>> THEN [relayed EXCEPT !.sent = Absent]
                          ELSE relayed
            /\ UNCHANGED <<variant, uniqueIndex, user_push_tokens, registering, deactivated, engineVars, siteVars>>

\* POST /push/send-to-dos, /push/incident-report-notification and
\* /push/appointment-notification; the last two of the second server relay
\* to /push/send-to-dos and answer with the count of its response
SendToDOs ==
    \E op \in {"send-to-dos", "incident-report-notification", "appointment-notification"},
       ok \in BOOLEAN :
        LET sent == SendResponse(op, "none", getDOUserIds, ok, 200)
        IN
        /\ pushRes' = IF variant = "upsert" /\ op # "send-to-dos" /\ sent.to = <<>>
                      THEN [sent EXCEPT !.sent = Absent]
                      ELSE sent
        /\ UNCHANGED <<variant, uniqueIndex, user_push_tokens, registering, deactivated, engineVars, siteVars>>

-----------------------------------------------------------------------------
(* Password reset: POST /request-password-reset, POST /confirm-password-reset *)

MaxHours == 1
MaxResetTokens == 2

RESET_TOKEN_TTL == 60 * 60 * 1000

\* the clock readings of the password-reset runs
ResetTimes == {h * RESET_TOKEN_TTL + o : h \in 0..MaxHours, o \in {0, 1}}

\* userType: the users table is asked first
UserTypes == {"admin", "student"}

\* the e-mail address of the row of each table
EmailOf == [k \in UserTypes |-> IF k = "admin" THEN "admin@school" ELSE "student@school"]

\* what req.body.email can be: absent, one of the two addresses, an unknown one
ResetEmails == {"", "admin@school", "student@school", "nobody@school"}

\* SQL null in a token or timestamp column
SqlNull == 0

\* the random tokens, in the order they are generated
ResetTokens == 1..MaxResetTokens

OldPassword == "old"

\* what req.body.newPassword can be; "" is an absent one
NewPasswords == {"", "a", "b"}

Account(password, token, expires) ==
    [password |-> password, password_reset_token |-> token,
     password_reset_token_expires |-> expires]

ResetResponse(op, token, newPassword, status) ==
    [op |-> op, token |-> token, newPassword |-> newPassword, status |-> status]

NoResetResponse == ResetResponse("none", SqlNull, "", 0)

ResetIdle ==
    /\ accounts = [k \in UserTypes |-> Account(OldPassword, SqlNull, SqlNull)]
    /\ issued = 0
    /\ confirming = EmptyBag
    /\ succeeded = EmptyBag
    /\ resetRes = NoResetResponse

\* time passes
TickReset ==
    /\ \E t \in ResetTimes : t > now /\ now' = t
    /\ UNCHANGED <<requestCounts, handbook, res, args, ret, pushVars, calls, siteVars>>

\* the table whose row has this e-mail address: users before students
userTypeOfEmail(email) ==
    IF email = EmailOf["admin"] THEN "admin"
    ELSE IF email = EmailOf["student"] THEN "student" ELSE "none"

\* POST /request-password-reset; sent tells whether sgMail.send succeeded
RequestPasswordReset ==
    \E email \in ResetEmails, sent \in BOOLEAN :
        LET userType == userTypeOfEmail(email)
            resetToken == issued + 1
        IN  /\ resetToken \in ResetTokens
            /\ IF email = ""
               THEN /\ resetRes' = ResetResponse("request", SqlNull, "", 400)
                    /\ UNCHANGED <<accounts, issued>>
               ELSE IF userType = "none"
               THEN /\ resetRes' = ResetResponse("request", SqlNull, "", 404)
                    /\ UNCHANGED <<accounts, issued>>
               ELSE /\ accounts' = [accounts EXCEPT ![userType] =
                            Account(@.password, resetToken, now + RESET_TOKEN_TTL)]
                    /\ issued' = resetToken
                    /\ resetRes' = ResetResponse("request", resetToken, "",
                                                 IF sent THEN 200 ELSE 500)
            /\ UNCHANGED <<confirming, succeeded>>
            /\ UNCHANGED <<engineVars, pushVars, verifyVars, chatVars>>

\* the table whose row has this reset token: users before students
userTypeOfToken(token) ==
    IF accounts["admin"].password_reset_token = token THEN "admin"
    ELSE IF accounts["student"].password_reset_token = token THEN "student" ELSE "none"

\* POST /confirm-password-reset up to its update: the checks of the body, the
\* select by token and the check of the expiry
ConfirmSelect ==
    \E token \in ResetTokens \cup {SqlNull}, newPassword \in NewPasswords :
        LET userType == userTypeOfToken(token)
        IN  /\ IF token = SqlNull \/ newPassword = ""
               THEN /\ resetRes' = ResetResponse("confirm", token, newPassword, 400)
                    /\ UNCHANGED confirming
               ELSE IF userType = "none"
               THEN /\ resetRes' = ResetResponse("confirm", token, newPassword, 400)
                    /\ UNCHANGED confirming
               ELSE IF now > accounts[userType].password_reset_token_expires
               THEN /\ resetRes' = ResetResponse("confirm", token, newPassword, 400)
                    /\ UNCHANGED confirming
               ELSE /\ BagCardinality(confirming) < MaxInFlight
                    /\ confirming' = confirming (+)
                            SetToBag({[token |-> token, newPassword |-> newPassword,
                                       userType |-> userType]})
                    /\ UNCHANGED resetRes
            /\ UNCHANGED <<accounts, issued, succeeded>>
            /\ UNCHANGED <<engineVars, pushVars, verifyVars, chatVars>>

\* POST /confirm-password-reset from its update on: the update of the row with
\* the e-mail address that the select gave, and the response; updateError
\* tells whether the update failed
ConfirmUpdate ==
    \E h \in BagToSet(confirming), updateError \in BOOLEAN :
        /\ confirming' = confirming (-) SetToBag({h})
        /\ IF updateError
           THEN /\ resetRes' = ResetResponse("confirm", h.token, h.newPassword, 500)
                /\ UNCHANGED <<accounts, succeeded>>
           ELSE /\ accounts' = [accounts EXCEPT ![h.userType] =
                        Account(h.newPassword, SqlNull, SqlNull)]
                /\ succeeded' = succeeded (+) SetToBag({h.token})
                /\ resetRes' = ResetResponse("confirm", h.token, h.newPassword, 200)
        /\ UNCHANGED issued
        /\ UNCHANGED <<engineVars, pushVars, verifyVars, chatVars>>

-----------------------------------------------------------------------------
(* E-mail verification: GET /verify-email, POST /resend-verification-link *)

MaxDays == 2
MaxVerifyTokens == 3

\* 24 hours: hoursDiff = (now - tokenCreated) / (1000 * 60 * 60) against 24
VERIFY_WINDOW == 24 * 1000 * 60 * 60

\* the clock readings of the verification runs
VerifyTimes == {d * VERIFY_WINDOW + o : d \in 0..MaxDays, o \in {0, 1, 2}}

\* the random verification tokens, in the order they are generated; the
\* password generated with a token is named by the same number
VerifyTokens == 1..MaxVerifyTokens

StudentEmail == "student@school"

\* what req.body.email can be: absent, the student's address, an unknown one
VerifyEmails == {"", StudentEmail, "nobody@school"}

\* what req.body.name can be: absent or a name
VerifyNames == {"", "Ana"}

Student(verified, token, created_at, password) ==
    [verified |-> verified, verification_token |-> token,
     created_at |-> created_at, password |-> password]

\* the row as the upload of the student list creates it
UploadedStudent == Student(FALSE, 1, 0, 1)

VerifyResponse(op, token, status, title) ==
    [op |-> op, token |-> token, status |-> status, title |-> title]

NoVerifyResponse == VerifyResponse("none", SqlNull, 0, "")

VerifyIdle ==
    /\ student = UploadedStudent
    /\ minted = 1
    /\ verifyRes = NoVerifyResponse

\* time passes
TickVerify ==
    /\ \E t \in VerifyTimes : t > now /\ now' = t
    /\ UNCHANGED <<requestCounts, handbook, res, args, ret, pushVars, calls, siteVars>>

\* now - tokenCreated of both handlers, in ms
hoursDiff(row, at) == at - row.created_at

linkExpiredNever(row, at) == FALSE

\* the check of /verify-email: hoursDiff > 24
linkExpired(row, at) == hoursDiff(row, at) > VERIFY_WINDOW

linkStillValidBefore24(row, at) == hoursDiff(row, at) < VERIFY_WINDOW

\* the check of /resend-verification-link: hoursDiff <= 24
linkStillValid(row, at) == hoursDiff(row, at) <= VERIFY_WINDOW

VerificationFailed(token) == VerifyResponse("verify", token, 200, "Verification Failed")

\* GET /verify-email; updateError tells whether the update failed
VerifyEmail ==
    \E token \in VerifyTokens \cup {SqlNull}, updateError \in BOOLEAN :
        /\ IF token = SqlNull
           THEN /\ verifyRes' = VerificationFailed(token)
                /\ UNCHANGED student
           ELSE IF ~(student.verification_token = token /\ student.verified = FALSE)
           THEN /\ verifyRes' = VerificationFailed(token)
                /\ UNCHANGED student
           ELSE IF linkExpired(student, now)
           THEN /\ verifyRes' = VerificationFailed(token)
                /\ UNCHANGED student
           ELSE IF updateError
           THEN /\ verifyRes' = VerificationFailed(token)
                /\ UNCHANGED student
           ELSE /\ student' = [student EXCEPT !.verified = TRUE,
                                              !.verification_token = SqlNull]
                /\ verifyRes' = VerifyResponse("verify", token, 200,
                                               "Email Verified Successfully")
        /\ UNCHANGED minted
        /\ UNCHANGED <<engineVars, pushVars, resetVars, chatVars>>

\* POST /resend-verification-link; updateError tells whether the update
\* failed, sent whether sgMail.send succeeded
ResendVerificationLink ==
    \E email \in VerifyEmails, name \in VerifyNames, updateError \in BOOLEAN, sent \in BOOLEAN :
        LET newToken == minted + 1
        IN  /\ newToken \in VerifyTokens
            /\ IF email = "" \/ name = ""
               THEN /\ verifyRes' = VerifyResponse("resend", SqlNull, 400, "")
                    /\ UNCHANGED <<student, minted>>
               ELSE IF email # StudentEmail
               THEN /\ verifyRes' = VerifyResponse("resend", SqlNull, 500, "")
                    /\ UNCHANGED <<student, minted>>
               ELSE IF student.verified
               THEN /\ verifyRes' = VerifyResponse("resend", SqlNull, 400, "")
                    /\ UNCHANGED <<student, minted>>
               ELSE IF linkStillValid(student, now)
               THEN /\ verifyRes' = VerifyResponse("resend", SqlNull, 400, "")
                    /\ UNCHANGED <<student, minted>>
               ELSE IF updateError
               THEN /\ verifyRes' = VerifyResponse("resend", SqlNull, 500, "")
                    /\ UNCHANGED <<student, minted>>
               ELSE /\ student' = Student(FALSE, newToken, now, newToken)
                    /\ minted' = newToken
                    /\ verifyRes' = VerifyResponse("resend", newToken,
                                                   IF sent THEN 200 ELSE 500, "")
            /\ UNCHANGED <<engineVars, pushVars, resetVars, chatVars>>

-----------------------------------------------------------------------------
(* Chat relay: the socket.io handlers send_message and send_message_ir *)

MaxMessages == 2

Sockets == {"s1", "s2"}

\* the room of the violation and of the incident report that the chats are about
RoomId == "r1"

\* the fields that both handlers require besides the room
ChatFields == {"sender", "sender_id", "time_sent", "message"}

\* the data of a send event: a field is "" when the client left it out
ChatData ==
    {[room |-> RoomId, sender |-> "student", sender_id |-> "7",
      time_sent |-> "t", message |-> "hi"]}
    \cup {[room |-> "", sender |-> "student", sender_id |-> "7",
           time_sent |-> "t", message |-> "hi"]}
    \cup {[[room |-> RoomId, sender |-> "student", sender_id |-> "7",
            time_sent |-> "t", message |-> "hi"] EXCEPT ![f] = ""] : f \in ChatFields}

\* the validation of both handlers
HasRequiredFields(data) ==
    /\ data.room # ""
    /\ \A f \in ChatFields : data[f] # ""

\* the sockets of a room; no socket is in the room of an absent id
SocketsIn(room) == IF room \in DOMAIN rooms THEN rooms[room] ELSE {}

Emission(event, data, to) == [event |-> event, data |-> data, to |-> to]

ChatIdle ==
    /\ rooms = [r \in {RoomId} |-> {}]
    /\ messages = {}
    /\ messages_ir = {}
    /\ emitted = <<>>

\* join_violation_room and join_incident_room: socket.join
JoinRoom ==
    \E socket \in Sockets :
        /\ socket \notin rooms[RoomId]
        /\ rooms' = [rooms EXCEPT ![RoomId] = @ \cup {socket}]
        /\ UNCHANGED <<messages, messages_ir, emitted>>
        /\ UNCHANGED <<engineVars, pushVars, resetVars, verifyVars>>

\* send_message; insertError tells whether the insert failed
SendMessage ==
    \E socket \in Sockets, data \in ChatData, insertError \in BOOLEAN :
        /\ Len(emitted) < MaxMessages
        /\ messages' = IF HasRequiredFields(data) /\ ~insertError
                       THEN messages \cup {data} ELSE messages
        /\ emitted' = Append(emitted,
                Emission("receive_message", data, SocketsIn(data.room) \ {socket}))
        /\ UNCHANGED <<rooms, messages_ir>>
        /\ UNCHANGED <<engineVars, pushVars, resetVars, verifyVars>>

\* send_message_ir; insertError tells whether the insert failed
SendMessageIr ==
    \E socket \in Sockets, data \in ChatData, insertError \in BOOLEAN :
        /\ Len(emitted) < MaxMessages
        /\ messages_ir' = IF HasRequiredFields(data) /\ ~insertError
                          THEN messages_ir \cup {data} ELSE messages_ir
        /\ emitted' = Append(emitted,
                Emission("receive_message_ir", data, SocketsIn(data.room)))
        /\ UNCHANGED <<rooms, messages>>
        /\ UNCHANGED <<engineVars, pushVars, resetVars, verifyVars>>

SiteIdle == ResetIdle /\ VerifyIdle /\ ChatIdle

-----------------------------------------------------------------------------
(* The phone number formatting of /send-parent-sms *)

IsDigit(c) == c \in Digits

\* s.startsWith(p)
startsWith(s, p) == Len(s) >= Len(p) /\ SubSeq(s, 1, Len(p)) = p

\* s.substring(n)
substring(s, n) == SubSeq(s, n + 1, Len(s))

\* a formatting that does not know the country code
formatPhoneNoCountryCode(phoneNumber) ==
    LET formattedPhone == SelectSeq(phoneNumber, IsDigit)
    IN  IF ~startsWith(formattedPhone, <<"0">>) THEN <<"0">> \o formattedPhone ELSE formattedPhone

\* replace(/\D/g, ''), then 63... and +63... lose the country code for a 0,
\* and what does not start with 0 gets one
formatPhoneForSemaphore(phoneNumber) ==
    LET formattedPhone == SelectSeq(phoneNumber, IsDigit)
    IN  IF startsWith(formattedPhone, <<"6","3">>) THEN <<"0">> \o substring(formattedPhone, 2)
        ELSE IF startsWith(formattedPhone, <<"+","6","3">>) THEN <<"0">> \o substring(formattedPhone, 3)
        ELSE IF ~startsWith(formattedPhone, <<"0">>) THEN <<"0">> \o formattedPhone
        ELSE formattedPhone

-----------------------------------------------------------------------------
(* Inputs of the direct calls *)

\* how many fragments a generated question is made of, at most
MaxWords == 2

\* how many paragraphs a generated document has, at most
MaxParas == 2

\* the largest maxPassages a call asks for
MaxPassagesArg == 2

\* fragments of questions: one or more per classifier rule, a word that
\* matches no rule, and words that hold a keyword inside them
QFragments ==
    {<<"d","r","e","s","s">>, <<"L","a","t","e">>, <<"a","p","p","e","a","l">>, <<"b","u","l","l","y">>, <<"s","u","s","p","e","n","d">>, <<"e","x","p","e","l">>,
     <<"c","a","t","e","g","o","r","y">>, <<"c","h","e","a","t">>, <<"f","i","g","h","t">>, <<"m","i","n","o","r">>, <<"r","u","l","e">>, <<"h","e","l","l","o">>, <<"v","i","o","l","a","t","e">>}

\* the questions of n fragments, joined by single spaces
RECURSIVE QuestionsOf(_)
QuestionsOf(n) ==
    IF n = 0 THEN {<<>>}
    ELSE IF n = 1 THEN QFragments
    ELSE {f \o <<" ">> \o q : f \in QFragments, q \in QuestionsOf(n - 1)}

\* whole questions: the precedence example, and keywords with white space
ExampleQuestions ==
    {<<"w","h","a","t"," ","h","a","p","p","e","n","s"," ","i","f"," ","I"," ","v","i","o","l","a","t","e"," ","t","h","e"," ","d","r","e","s","s"," ","c","o","d","e"," ","c","a","t","e","g","o","r","y"," ","b">>, <<"W","h","a","t"," ","i","s"," ","t","h","e"," ","d","r","e","s","s"," ","c","o","d","e","?">>,
     <<"C","a","t","e","g","o","r","y"," "," ","B">>, <<"c","a","t","e","g","o","r","y","c">>, <<"I","D",NL,"v","i","o","l","a","t","i","o","n">>, <<"U","p","d","a","t","e"," ","m","y"," ","r","e","c","o","r","d">>}

ClassifierQuestions ==
    {Undefined} \cup {Str(q) : q \in ExampleQuestions \cup UNION {QuestionsOf(n) : n \in 0..MaxWords}}

\* questions put to getFAQAnswer
FaqQuestions ==
    {Str(<<>>), Str(<<"W","h","a","t"," ","i","s"," ","t","h","e"," ","d","r","e","s","s"," ","c","o","d","e","?">>), Str(<<"w","h","a","t"," ","h","a","p","p","e","n","s"," ","i","f"," ","I"," ","v","i","o","l","a","t","e"," ","t","h","e"," ","D","r","e","s","s"," ","C","o","d","e">>),
     Str(<<"u","n","i","f","o","r","m"," ","p","e","n","a","l","t","y">>), Str(<<"p","e","n","a","l","t","y"," ","f","o","r"," ","n","o",NL,"u","n","i","f","o","r","m">>), Str(<<"h","e","l","l","o">>)}

\* questions put to the rankers
RankQuestions ==
    {Undefined, NotAString, Str(<<>>), Str(<<"a","b"," ","c","d">>), Str(<<"c","d"," ","a","b">>), Str(<<"t","h","e"," ","A","b","?">>), Str(<<"a","b"," ","e","f">>)}

\* paragraphs of the generated documents; the last has more than 40 characters
RankParagraphs ==
    {<<"a","b"," ","c","d">>, <<"c","d"," ","a","b"," ","a","b">>, <<"E","f",","," ","g","h",":"," ","t","h","e"," ","l","o","n","g"," ","p","a","r","a","g","r","a","p","h"," ","o","f"," ","t","h","e"," ","h","a","n","d","b","o","o","k"," ","t","e","x","t",".">>}

\* the documents of n paragraphs, separated by a blank line
RECURSIVE DocumentsOf(_)
DocumentsOf(n) ==
    IF n = 0 THEN {<<>>}
    ELSE IF n = 1 THEN RankParagraphs
    ELSE {p \o <<NL, " ", NL>> \o d : p \in RankParagraphs, d \in DocumentsOf(n - 1)}

RankDocuments ==
    {Undefined, NotAString} \cup {Str(d) : d \in UNION {DocumentsOf(n) : n \in 0..MaxParas}}

RankFocus == {<<>>, <<<<"E","F">>>>, <<<<"z","z">>>>, <<<<"a","b">>, <<"e","f">>>>}

MaxPassagesOptions ==
    {Options(FALSE, 0, FALSE, 0)} \cup {Options(TRUE, m, FALSE, 0) : m \in 0..MaxPassagesArg}

PlainOptions ==
    MaxPassagesOptions \cup {[o EXCEPT !.hasMinLen = TRUE, !.minLen = 6] : o \in MaxPassagesOptions}

Args(fn, q, cat, doc, focus, opts) ==
    [fn |-> fn, q |-> q, cat |-> cat, doc |-> doc, focus |-> focus, opts |-> opts]

NoOptions == Options(FALSE, 0, FALSE, 0)

NoArgs == Args("none", Undefined, "none", Undefined, <<>>, NoOptions)

NoRet == [done |-> FALSE, cat |-> "none", val |-> Undefined, out |-> Return(<<>>)]

ClassifyArgs == {Args("classify", q, "none", Undefined, <<>>, NoOptions) : q \in ClassifierQuestions}

FaqArgs ==
    {Args("faq", q, c, Undefined, <<>>, NoOptions) : q \in FaqQuestions, c \in Categories \cup {"unknown"}}

PlainArgs ==
    {Args("plain", q, "none", d, <<>>, o) : q \in RankQuestions, d \in RankDocuments, o \in PlainOptions}

FocusedArgs ==
    {Args("focused", q, "none", d, f, o) :
        q \in RankQuestions, d \in RankDocuments, f \in RankFocus, o \in MaxPassagesOptions}

\* the orders of two and of three words, as paragraphs
Orders2(a, b) == {a \o <<" ">> \o b, b \o <<" ">> \o a}

Orders3(a, b, c) ==
    {x \o <<" ">> \o y : x \in {a}, y \in Orders2(b, c)}
      \cup {x \o <<" ">> \o y : x \in {b}, y \in Orders2(a, c)}
      \cup {x \o <<" ">> \o y : x \in {c}, y \in Orders2(a, b)}

\* sets of paragraphs made of the same words in different orders
WordOrders ==
    {Orders2(<<"a","b">>, <<"c","d">>), Orders2(<<"t","h","e">>, <<"a","b">>),
     Orders3(<<"a","b">>, <<"c","d">>, <<"x","x">>), Orders3(<<"a","b">>, <<"t","h","e">>, <<"c","d">>)}

\* documents of two paragraphs that differ in the order of their words only
WordOrderDocuments ==
    UNION {{Str(p1 \o <<NL, NL>> \o p2) : p1 \in ps, p2 \in ps} : ps \in WordOrders}

WordOrderQuestions ==
    {Str(<<"a","b"," ","c","d">>), Str(<<"t","h","e"," ","a","b">>), Str(<<"a","b"," ","c","d"," ","a","b">>), Str(<<"A","b",","," ","c","d"," ","x","x","?">>), Str(<<"a","b"," ","t","h","e"," ","c","d">>)}

\* calls of the plain ranker that rank such paragraphs, whatever their length
WordOrderArgs ==
    {Args("plain", q, "none", d, <<>>, Options(TRUE, 1, TRUE, 0)) :
        q \in WordOrderQuestions, d \in WordOrderDocuments}

\* mobile numbers: ten digits, the first a 9
MobileNumbers == {<<"9","2","8","2","7","3","1","2","0","2">>, <<"9","6","3","1","2","3","4","5","6","3">>, <<"9","0","0","0","0","0","0","0","0","0">>}

\* the ways to write mobile number x: with +63, 63, 0 or nothing before it,
\* in one piece or in groups set apart by spaces or dashes
FormsOf(x) ==
    LET Grouped(prefix, sep) ==
            (IF prefix = <<>> THEN <<>> ELSE prefix \o sep)
              \o SubSeq(x, 1, 3) \o sep \o SubSeq(x, 4, 6) \o sep \o SubSeq(x, 7, 10)
    IN  {Grouped(prefix, sep) : prefix \in {<<"+","6","3">>, <<"6","3">>, <<"0">>, <<>>},
                                sep \in {<<>>, <<" ">>, <<"-">>}}

\* how long the other phone numbers are, at most
MaxPhoneLen == 3

PhoneChars == {"0", "3", "6", "9", "+", "-", " "}

\* every string of PhoneChars of n characters
RECURSIVE PhoneStrings(_)
PhoneStrings(n) ==
    IF n = 0 THEN {<<>>} ELSE {<<c>> \o s : c \in PhoneChars, s \in PhoneStrings(n - 1)}

PhoneNumbers ==
    UNION {FormsOf(x) : x \in MobileNumbers} \cup UNION {PhoneStrings(n) : n \in 0..MaxPhoneLen}

PhoneArgs == {Args("phone", Str(p), "none", Undefined, <<>>, NoOptions) : p \in PhoneNumbers}

FnArgs ==
    ClassifyArgs \cup FaqArgs \cup PlainArgs \cup FocusedArgs \cup WordOrderArgs \cup PhoneArgs

-----------------------------------------------------------------------------
(* Direct calls of the engine's functions *)

CallClassify ==
    /\ args.fn = "classify"
    /\ ~ret.done
    /\ ret' = [ret EXCEPT !.done = TRUE, !.cat = deriveQuestionCategory(args.q)]
    /\ UNCHANGED <<now, requestCounts, handbook, res, args, pushVars, calls, siteVars>>

CallFAQ ==
    /\ args.fn = "faq"
    /\ ~ret.done
    /\ ret' = [ret EXCEPT !.done = TRUE, !.val = getFAQAnswer(args.cat, args.q)]
    /\ UNCHANGED <<now, requestCounts, handbook, res, args, pushVars, calls, siteVars>>

CallPlain ==
    /\ args.fn = "plain"
    /\ ~ret.done
    /\ ret' = [ret EXCEPT !.done = TRUE,
                          !.out = extractTopHandbookPassages(args.q, args.doc, args.opts)]
    /\ UNCHANGED <<now, requestCounts, handbook, res, args, pushVars, calls, siteVars>>

CallFocused ==
    /\ args.fn = "focused"
    /\ ~ret.done
    /\ ret' = [ret EXCEPT !.done = TRUE,
                          !.out = extractTopHandbookPassagesFocused(args.q, args.doc, args.focus, args.opts)]
    /\ UNCHANGED <<now, requestCounts, handbook, res, args, pushVars, calls, siteVars>>

CallFormatPhone ==
    /\ args.fn = "phone"
    /\ ~ret.done
    /\ ret' = [ret EXCEPT !.done = TRUE, !.val = Str(formatPhoneForSemaphore(args.q.s))]
    /\ UNCHANGED <<now, requestCounts, handbook, res, args, pushVars, calls, siteVars>>

InitFn ==
    /\ now = 0
    /\ requestCounts = [t \in {} |-> 0]
    /\ handbook = Unreadable
    /\ res = NoResponse
    /\ args \in FnArgs
    /\ ret = NoRet
    /\ PushIdle
    /\ calls = NoCalls
    /\ SiteIdle

NextFn ==
    \/ CallClassify
    \/ CallFAQ
    \/ CallPlain
    \/ CallFocused
    \/ CallFormatPhone

SpecFn == InitFn /\ [][NextFn]_vars

Init ==
    /\ InitServer
    /\ args = NoArgs
    /\ ret = NoRet
    /\ PushIdle
    /\ calls = NoCalls
    /\ SiteIdle

Next ==
    \/ Tick
    \/ AskHandbook
    \/ AskHandbookLLM
    \/ PostChatbotAsk
    \/ GetCategories
    \/ OtherRateLimited

Spec == Init /\ [][Next]_vars


\* the push-token registry and its clients
EngineIdle ==
    /\ now = 0
    /\ requestCounts = [t \in {} |-> 0]
    /\ handbook = Unreadable
    /\ res = NoResponse
    /\ args = NoArgs
    /\ ret = NoRet
    /\ calls = NoCalls

InitPushSpec == EngineIdle /\ InitPush /\ SiteIdle

NextPush ==
    \/ RegisterIncomplete
    \/ RegisterSelect
    \/ RegisterWrite
    \/ RegisterUpsert
    \/ Deactivate
    \/ SendToStudent
    \/ ChatMessageNotification
    \/ SendToDOs

SpecPush == InitPushSpec /\ [][NextPush]_vars

\* the rate limiter, its clock and its callers
InitLimiter ==
    /\ now = 0
    /\ requestCounts = [t \in {} |-> 0]
    /\ handbook = Unreadable
    /\ res = NoResponse
    /\ args = NoArgs
    /\ ret = NoRet
    /\ PushIdle
    /\ calls = NoCalls
    /\ SiteIdle

NextLimiter ==
    \/ Tick
    \/ CallCheckRateLimit

SpecLimiter == InitLimiter /\ [][NextLimiter]_vars
-----------------------------------------------------------------------------
(* The password reset, the e-mail verification and the chat relay start from
   the same state *)

InitSite == EngineIdle /\ PushIdle /\ SiteIdle

NextReset ==
    \/ TickReset
    \/ RequestPasswordReset
    \/ ConfirmSelect
    \/ ConfirmUpdate

SpecReset == InitSite /\ [][NextReset]_vars

(* The e-mail verification on its own *)

NextVerify ==
    \/ TickVerify
    \/ VerifyEmail
    \/ ResendVerificationLink

SpecVerify == InitSite /\ [][NextVerify]_vars

(* The chat relay on its own *)

NextChat ==
    \/ JoinRoom
    \/ SendMessage
    \/ SendMessageIr

SpecChat == InitSite /\ [][NextChat]_vars

-----------------------------------------------------------------------------
(* Claims about the engine's functions, checked under SpecFn *)

\* the lower-cased text the classifier tests for the question of the call
ClassifiedText == toLowerCase(IF args.q.t = "str" THEN args.q.s ELSE <<>>)

\* the rules, by their place in the stated precedence order, that match
MatchingRules == {i \in 1..Len(RuleOrder) : RuleMatches(RuleOrder[i], ClassifiedText)}

\* C1: deriveQuestionCategory returns, for every question (the empty and the
\* absent one included), one of the 12 enumerated categories, and `general`
\* exactly when none of the 11 keyword rules matches the question.
C1_ClassifierTotal ==
    (args.fn = "classify" /\ ret.done) =>
        /\ ret.cat \in Categories
        /\ Cardinality(Categories) = 12
        /\ (ret.cat = "general") <=> (MatchingRules = {})

C1_Witness ==
    /\ args.fn = "classify" /\ ret.done
    /\ args.q = Undefined
    /\ ret.cat = "general"

\* C2: precedence is first-match-wins in the order dressCode, attendance,
\* appeals, bullying, suspension, expulsion, categoryC, majorOffensesB,
\* majorOffensesA, minorOffenses, violations: of two matching rules i before j
\* the result is never j, and it is i when no rule before i matches.
C2_ClassifierPrecedence ==
    (args.fn = "classify" /\ ret.done) =>
        \A i \in MatchingRules : \A j \in MatchingRules :
            i < j =>
                /\ ret.cat # RuleOrder[j]
                /\ (\A k \in MatchingRules : i <= k) => ret.cat = RuleOrder[i]

C2_Witness ==
    /\ args.fn = "classify" /\ ret.done
    /\ args.q = Str(<<"w","h","a","t"," ","h","a","p","p","e","n","s"," ","i","f"," ","I"," ","v","i","o","l","a","t","e"," ","t","h","e"," ","d","r","e","s","s"," ","c","o","d","e"," ","c","a","t","e","g","o","r","y"," ","b">>)
    /\ {1, 8} \subseteq MatchingRules
    /\ ret.cat = "dressCode"

RequestedMaxPassages == IF args.opts.hasMax THEN args.opts.maxPassages ELSE 3

\* the passages are in non-increasing order of Score, each above zero
RankedByScore(list, Score(_)) ==
    /\ \A i \in 1..Len(list) : Score(list[i]) > 0
    /\ \A i \in 1..Len(list) : \A j \in 1..Len(list) : i < j => Score(list[i]) >= Score(list[j])

\* C4: the plain ranker returns at most maxPassages passages, each with a
\* score above zero, in non-increasing order of score, and no paragraph it
\* leaves out scores higher than one it returns.
C4_PlainRankerBound ==
    (args.fn = "plain" /\ ret.done /\ args.q.t = "str" /\ args.doc.t = "str") =>
        LET list == ret.out.list
            Score(p) == PlainScore(args.q.s, p)
            paragraphs == PlainParagraphs(args.doc.s, IF args.opts.hasMinLen THEN args.opts.minLen ELSE 40)
        IN  /\ ~ret.out.threw
            /\ Len(list) <= RequestedMaxPassages
            /\ Range(list) \subseteq Range(paragraphs)
            /\ RankedByScore(list, Score)
            /\ \A p \in Range(paragraphs) \ Range(list) : \A r \in Range(list) : Score(p) <= Score(r)

C4_Witness ==
    /\ args.fn = "plain" /\ ret.done
    /\ args.q = Str(<<"a","b"," ","e","f">>)
    /\ args.opts = Options(TRUE, 1, TRUE, 6)
    /\ ret.out = Return(<<<<"c","d"," ","a","b"," ","a","b">>>>)
    /\ \E p \in Range(PlainParagraphs(args.doc.s, 6)) : p # <<"c","d"," ","a","b"," ","a","b">> /\ PlainScore(args.q.s, p) > 0

\* C5 as stated: the focused ranker returns at most the requested maxPassages
\* passages (maxPassages = 0 included), each with a score above zero, in
\* non-increasing order of score.  Stated for the questions that are not
\* empty, which C10 is about.
C5_FocusedRankerBound ==
    (args.fn = "focused" /\ ret.done /\ args.doc.t # "num" /\ args.q.t = "str" /\ args.q.s # <<>>) =>
        LET list == ret.out.list
            Score(p) == FocusedScore(args.q, p, args.focus)
        IN  /\ ~ret.out.threw
            /\ Len(list) <= RequestedMaxPassages
            /\ RankedByScore(list, Score)

\* C9: with an empty or absent document both rankers return the empty
\* sequence and throw nothing, whatever the question, the focus keywords and
\* maxPassages are.
C9_EmptyDocument ==
    (args.fn \in {"plain", "focused"} /\ ret.done /\ args.doc \in {Undefined, Str(<<>>)}) =>
        ret.out = Return(<<>>)

C9_Witness ==
    /\ args.fn = "plain" /\ ret.done
    /\ args.doc = Undefined
    /\ args.q = NotAString
    /\ ret.out = Return(<<>>)

\* C10 as stated: with an empty question and a non-empty document both
\* rankers return the empty sequence, whatever the focus keywords are.
\* Stated for the calls that ask for at least one passage, so that the
\* passages returned are not those maxPassages = 0 lets through (C5).
C10_EmptyQuestion ==
    (/\ args.fn \in {"plain", "focused"} /\ ret.done
     /\ (args.opts.hasMax => args.opts.maxPassages > 0)
     /\ args.q = Str(<<>>) /\ args.doc.t = "str" /\ args.doc.s # <<>>) =>
        ret.out = Return(<<>>)

-----------------------------------------------------------------------------
(* Claims about the HTTP handlers, checked under Spec *)

\* the questions POST /api/chatbot/ask accepts
ChatQuestions == {q \in EndpointQuestions : Truthy(q) /\ q.t = "str"}

\* the FAQ answer to each accepted question, in the category it is classified in
FaqAnswers == [q \in ChatQuestions |-> getFAQAnswer(deriveQuestionCategory(q), q)]

\* the focused passages for each accepted question on each handbook file: at
\* most 2, with the focus keywords of the question's category; none when the
\* file cannot be read
FocusedPassages ==
    [q \in ChatQuestions, file \in Handbooks |->
        LET cat == deriveQuestionCategory(q)
            keywords == IF cat \in {"dressCode", "attendance", "violations"}
                        THEN CHATBOT_FAQ[cat].keywords ELSE <<>>
        IN  IF file = Unreadable THEN <<>>
            ELSE extractTopHandbookPassagesFocused(q, PdfText(file), keywords,
                                                   Options(TRUE, 2, FALSE, 0)).list]

\* C6: the text of a successful POST /api/chatbot/ask response is the FAQ
\* answer whenever there is one, with source "FAQ" whatever the handbook
\* holds; otherwise the focused passages joined by a blank line, with source
\* "Student Handbook"; and the fixed sentinel when there is neither.
C6_AnswerComposition ==
    (res.op = "chatbot-ask" /\ res.status = 200) =>
        LET faq == FaqAnswers[res.q]
            passages == FocusedPassages[res.q, handbook]
        IN  IF faq.t = "str"
            THEN res.text = faq.s /\ res.source = "FAQ"
            ELSE IF passages # <<>>
            THEN res.text = Flatten(passages, <<NL, NL>>) /\ res.source = "Student Handbook"
            ELSE res.text = NotFoundText

C6_Witness ==
    /\ res.op = "chatbot-ask" /\ res.status = 200
    /\ res.q = Str(<<"H","o","w"," ","i","s"," ","b","u","l","l","y","i","n","g"," ","h","a","n","d","l","e","d","?">>)
    /\ FaqAnswers[res.q] = Null
    /\ Len(FocusedPassages[res.q, handbook]) = 2
    /\ res.source = "Student Handbook"
    /\ res.text # NotFoundText

\* a question POST /api/ask-handbook must refuse: missing, not a string, empty
\* or white space only
IsBlankQuestion(q) == q.t # "str" \/ q.s = <<>> \/ \A i \in 1..Len(q.s) : IsSpace(q.s[i])

\* C7 as stated: in every server state POST /api/ask-handbook answers a blank
\* question with 400 and {error: "Question is required."}, and does not read
\* the handbook.
C7_BlankQuestionRefused ==
    (res.op = "ask-handbook" /\ IsBlankQuestion(res.q)) =>
        /\ res.status = 400
        /\ res.error = "Question is required."
        /\ ~res.read

\* C8 as stated: when the handbook cannot be read, a request that asks a
\* question of POST /api/ask-handbook or POST /api/chatbot/ask gets a 500.
C8_DocumentUnavailable ==
    (/\ res.op \in {"ask-handbook", "chatbot-ask"}
     /\ ~IsBlankQuestion(res.q)
     /\ handbook = Unreadable) =>
        res.status = 500

-----------------------------------------------------------------------------
(* The focus keywords of the focused ranker *)

\* paragraph p holds one of the focus keywords, whatever the case
HoldsFocusKeyword(p, focusKeywords) ==
    \E k \in 1..Len(focusKeywords) : includes(toLowerCase(p), toLowerCase(focusKeywords[k]))

\* paragraph p holds a token of the question
OverlapsQuestion(p, question) ==
    LET qTokens == AlnumTokens(toLowerCase(StringOf(question)))
    IN  \E i \in 1..Len(qTokens) : includes(toLowerCase(p), qTokens[i])

FocusedCallOnText == args.fn = "focused" /\ ret.done /\ args.doc.t = "str" /\ args.focus # <<>>

\* C11: with focus keywords that no paragraph holds, the focused ranker
\* returns what it returns without focus keywords, and that is not empty when
\* a paragraph overlaps the question; with focus keywords that a paragraph
\* holds, every returned paragraph holds one
C11_FocusFallback ==
    FocusedCallOnText =>
        LET paras == FocusedParagraphs(args.doc.s)
            held == \E i \in 1..Len(paras) : HoldsFocusKeyword(paras[i], args.focus)
        IN  /\ ~ret.out.threw
            /\ ~held =>
                /\ ret.out = extractTopHandbookPassagesFocused(args.q, args.doc, <<>>, args.opts)
                /\ (\E i \in 1..Len(paras) : OverlapsQuestion(paras[i], args.q)) => ret.out.list # <<>>
            /\ held =>
                \A i \in 1..Len(ret.out.list) : HoldsFocusKeyword(ret.out.list[i], args.focus)

\* a call whose focus keyword is in no paragraph, answered with a paragraph
C11_Witness ==
    /\ FocusedCallOnText
    /\ args.focus = <<<<"z","z">>>>
    /\ args.q = Str(<<"a","b"," ","e","f">>)
    /\ Len(ret.out.list) = 2

-----------------------------------------------------------------------------
(* The weight of the bigrams in the plain ranker *)

\* the words of a text: lower-cased, without punctuation
Words(text) == SelectSeq(SplitChar(normalize(text), " "), IsNonEmpty)

\* how often word w occurs in the word list ws
Occurrences(ws, w) == Cardinality({i \in 1..Len(ws) : ws[i] = w})

\* two paragraphs with the same multiset of words
SameWords(p1, p2) ==
    LET w1 == Words(p1)
        w2 == Words(p2)
    IN  /\ Len(w1) = Len(w2)
        /\ \A w \in Range(w1) \cup Range(w2) : Occurrences(w1, w) = Occurrences(w2, w)

\* paragraph p holds word a immediately followed by word b
HoldsPair(p, a, b) ==
    LET ws == Words(p)
    IN  \E i \in 1..(Len(ws) - 1) : ws[i] = a /\ ws[i + 1] = b

\* paragraph p holds two adjacent words that are adjacent in the list qs
HoldsAPairOf(p, qs) == \E i \in 1..(Len(qs) - 1) : HoldsPair(p, qs[i], qs[i + 1])

\* the place of paragraph p in the list (0 when it is not there)
PlaceOf(list, p) ==
    IF \E i \in 1..Len(list) : list[i] = p
    THEN CHOOSE i \in 1..Len(list) : list[i] = p /\ \A j \in 1..(i - 1) : list[j] # p
    ELSE 0

\* paragraph p1 has the higher score for the question of the call, and the
\* call does not return p2 without p1 before it
RanksAbove(p1, p2) ==
    /\ PlainScore(args.q.s, p1) > PlainScore(args.q.s, p2)
    /\ PlaceOf(ret.out.list, p2) # 0 =>
          PlaceOf(ret.out.list, p1) \in 1..(PlaceOf(ret.out.list, p2) - 1)

PlainCallOnText ==
    args.fn = "plain" /\ ret.done /\ args.q.t = "str" /\ args.doc.t = "str" /\ ~ret.out.threw

\* the paragraphs the call of the plain ranker admits
AdmittedParagraphs ==
    PlainParagraphs(args.doc.s, IF args.opts.hasMinLen THEN args.opts.minLen ELSE DefaultMinLen)

\* C12, as stated: for every two adjacent words of the question, a paragraph
\* that holds the first immediately followed by the second scores strictly
\* higher than a paragraph of the same words that does not
C12_BigramWeighting ==
    PlainCallOnText =>
        LET qs == Words(args.q.s)
            ps == AdmittedParagraphs
        IN  \A i \in 1..(Len(qs) - 1) : \A m, n \in 1..Len(ps) :
                (/\ SameWords(ps[m], ps[n])
                 /\ HoldsPair(ps[m], qs[i], qs[i + 1])
                 /\ ~HoldsPair(ps[n], qs[i], qs[i + 1])) => RanksAbove(ps[m], ps[n])

\* C12, amended: for every two words that are adjacent in the question once
\* its stopwords are removed, a paragraph that holds the first immediately
\* followed by the second scores strictly higher than a paragraph of the same
\* words that holds no two adjacent words of that question
C12_BigramWeightingFiltered ==
    PlainCallOnText =>
        LET qs == PlainQTokens(args.q.s)
            ps == AdmittedParagraphs
        IN  \A i \in 1..(Len(qs) - 1) : \A m, n \in 1..Len(ps) :
                (/\ SameWords(ps[m], ps[n])
                 /\ HoldsPair(ps[m], qs[i], qs[i + 1])
                 /\ ~HoldsAPairOf(ps[n], qs)) => RanksAbove(ps[m], ps[n])

\* the phrase of the question comes second in the document and is returned
C12_Witness ==
    /\ PlainCallOnText
    /\ args.q = Str(<<"A","b",","," ","c","d"," ","x","x","?">>)
    /\ args.doc = Str(<<"x","x"," ","a","b"," ","c","d">> \o <<NL, NL>> \o <<"c","d"," ","a","b"," ","x","x">>)
    /\ ~HoldsAPairOf(<<"c","d"," ","a","b"," ","x","x">>, PlainQTokens(args.q.s))
    /\ ret.out.list = <<<<"x","x"," ","a","b"," ","c","d">>>>

-----------------------------------------------------------------------------
(* The order of the rules of CHATBOT_FAQ *)

\* the category of each accepted question
ChatCategories == [q \in ChatQuestions |-> deriveQuestionCategory(q)]

\* the rules of the question's category whose pattern matches the question
MatchingFaqRules ==
    [q \in ChatQuestions |->
        IF ChatCategories[q] \notin DOMAIN CHATBOT_FAQ THEN {}
        ELSE LET faqs == CHATBOT_FAQ[ChatCategories[q]].faqs
             IN  {i \in 1..Len(faqs) : FaqTest(faqs[i].q, q.s)}]

\* the accepted questions that name the dress code, the uniform or grooming
\* and, on the same line, a violation, a penalty, a sanction or a consequence
DressSanctionQuestions ==
    {q \in ChatQuestions :
        LET s == toLowerCase(q.s)
        IN  /\ TestGap(s, <<"d","r","e","s","s">>, <<"c","o","d","e">>) \/ TestAny(s, {<<"u","n","i","f","o","r","m">>, <<"g","r","o","o","m">>})
            /\ TestAny(s, {<<"v","i","o","l","a","t">>, <<"b","r","e","a","k">>, <<"p","e","n","a","l","t">>, <<"s","a","n","c","t","i","o","n">>, <<"c","o","n","s","e","q","u","e","n","c","e">>})
            /\ \A i \in 1..Len(s) : s[i] # NL}

-----------------------------------------------------------------------------
(* The handbook endpoints and the state of the server *)

\* what a server that has handled no request answers to the request
FreshResponse(op, q, file) ==
    IF op = "ask-handbook" THEN AskHandbookResponses[q, file] ELSE ChatbotAskResponses[q, file]

\* C14, as stated: the response of POST /api/ask-handbook and of POST
\* /api/chatbot/ask to a question on a handbook text is the same in every
\* state of the server, whatever the requests handled before
C14_RequestIndependence ==
    res.op \in {"ask-handbook", "chatbot-ask"} => res = FreshResponse(res.op, res.q, handbook)

-----------------------------------------------------------------------------
(* The minimum length of the returned passages *)

\* minPassageLength of the call: the option of the plain ranker, 40 when absent
MinPassageLength == IF args.opts.hasMinLen THEN args.opts.minLen ELSE DefaultMinLen

\* C15, as stated: neither ranker returns, for a question, a paragraph that
\* is shorter, once trimmed, than the minimum passage length
C15_MinimumPassageLength ==
    (/\ args.fn \in {"plain", "focused"}
     /\ ret.done
     /\ args.q.t = "str" /\ args.q.s # <<>>) =>
        \A i \in 1..Len(ret.out.list) : Len(trim(ret.out.list[i])) >= MinPassageLength

-----------------------------------------------------------------------------
(* The category list and the suggestions *)

\* the values the classifier returns for the example questions and for the
\* questions of one fragment
ClassifierValues == {deriveQuestionCategory(Str(q)) : q \in ExampleQuestions \cup QFragments}

\* C16: GET /api/chatbot/categories answers, in every state of the server,
\* with the same 11 entries; general is not among them, and their keys are
\* the values other than general that the classifier can return
C16_CategoryList ==
    res.op = "categories" =>
        LET keys == Range(res.suggestions)
        IN  /\ res.status = 200
            /\ Len(res.suggestions) = 11
            /\ Cardinality(keys) = 11
            /\ "general" \notin keys
            /\ keys = Categories \ {"general"}
            /\ keys = ClassifierValues \ {"general"}

\* the list is asked for after requests that changed the rate limiter
C16_Witness ==
    /\ res.op = "categories"
    /\ Len(res.suggestions) = 11
    /\ SumCounts(requestCounts) > 0
    /\ now > 0

\* C17: a successful POST /api/chatbot/ask response carries the category the
\* classifier returns for the question, the source "FAQ" or "Student
\* Handbook", and the three suggestions of that category's own entry; each of
\* the 12 categories has an entry of three suggestions, and only general gets
\* the suggestions of general
C17_ResponseFields ==
    (res.op = "chatbot-ask" /\ res.status = 200) =>
        /\ res.category = ChatCategories[res.q]
        /\ res.category \in Categories
        /\ res.source \in {"FAQ", "Student Handbook"}
        /\ Len(res.suggestions) = 3
        /\ res.category \in DOMAIN Suggestions
        /\ res.suggestions = Suggestions[res.category]
        /\ res.category # "general" => res.suggestions # Suggestions["general"]
        /\ \A c \in Categories :
              /\ c \in DOMAIN Suggestions
              /\ Len(getSuggestionsForCategory(c)) = 3
              /\ c # "general" => getSuggestionsForCategory(c) # Suggestions["general"]

\* a question about bullying is answered with the suggestions of bullying
C17_Witness ==
    /\ res.op = "chatbot-ask" /\ res.status = 200
    /\ res.category = "bullying"
    /\ res.suggestions[2] = "How is bullying handled?"
    /\ res.source = "Student Handbook"

-----------------------------------------------------------------------------
(* Claims about the phone number formatting, checked under SpecFn *)

\* C20: every way to write a mobile number 9xxxxxxxxx, with +63, 63, 0 or
\* nothing before it and with or without spaces and dashes, is formatted to
\* 0 followed by the number; whatever the input, the result is made of
\* digits, begins with 0 and is left as it is when formatted again
C20_PhoneCanonical ==
    (args.fn = "phone" /\ ret.done) =>
        /\ \A x \in MobileNumbers : args.q.s \in FormsOf(x) => ret.val.s = <<"0">> \o x
        /\ \A i \in 1..Len(ret.val.s) : ret.val.s[i] \in Digits
        /\ ret.val.s # <<>> /\ ret.val.s[1] = "0"
        /\ formatPhoneForSemaphore(ret.val.s) = ret.val.s

\* +63 928 273 1202 formatted
C20_Witness ==
    /\ args.fn = "phone" /\ ret.done
    /\ args.q = Str(<<"+","6","3"," ","9","2","8"," ","2","7","3"," ","1","2","0","2">>)
    /\ ret.val = Str(<<"0","9","2","8","2","7","3","1","2","0","2">>)

-----------------------------------------------------------------------------
(* The score of the focused ranker *)

\* how many of the strings of list occur in text
HitsIn(text, list) == Cardinality({i \in 1..Len(list) : includes(text, list[i])})

\* 2 for every token of the question, split on what is not a letter or a
\* digit, that occurs in the lower-cased paragraph, and 1 for every focus
\* keyword that does
SubstringScore(question, p, focusKeywords) ==
    2 * HitsIn(toLowerCase(p), AlnumTokens(toLowerCase(StringOf(question))))
      + HitsIn(toLowerCase(p), [i \in 1..Len(focusKeywords) |-> toLowerCase(focusKeywords[i])])

\* C21: the focused ranker ranks the candidate paragraphs by 2 x the question
\* tokens that occur in the paragraph + 1 x the focus keywords that do, and
\* by nothing else: what it returns scores above zero, is in non-increasing
\* order of that score, and no candidate it leaves out scores higher
C21_FocusedScoring ==
    (args.fn = "focused" /\ ret.done /\ args.doc.t = "str") =>
        LET list == ret.out.list
            Score(p) == SubstringScore(args.q, p, args.focus)
            pool == FocusedPool(args.doc.s, args.focus)
        IN  /\ ~ret.out.threw
            /\ Range(list) \subseteq Range(pool)
            /\ \A i \in 1..Len(list) : Score(list[i]) > 0
            /\ \A i, j \in 1..Len(list) : i < j => Score(list[i]) >= Score(list[j])
            /\ \A p \in Range(pool) \ Range(list) : \A r \in Range(list) : Score(p) <= Score(r)
            /\ (list = <<>> /\ pool # <<>>) => \A p \in Range(pool) : Score(p) = 0

\* a stopword of the question counts, and a word that is twice in the
\* paragraph counts once: the two paragraphs tie and keep their order
C21_Witness ==
    /\ args.fn = "focused" /\ ret.done
    /\ args.q = Str(<<"t","h","e"," ","A","b","?">>)
    /\ args.focus = <<>>
    /\ args.doc = Str(<<"E","f",","," ","g","h",":"," ","t","h","e"," ","l","o","n","g"," ","p","a","r","a","g","r","a","p","h"," ","o","f"," ","t","h","e"," ","h","a","n","d","b","o","o","k"," ","t","e","x","t",".",NL," ",NL,"c","d"," ","a","b"," ","a","b">>)
    /\ ret.out.list = <<<<"E","f",","," ","g","h",":"," ","t","h","e"," ","l","o","n","g"," ","p","a","r","a","g","r","a","p","h"," ","o","f"," ","t","h","e"," ","h","a","n","d","b","o","o","k"," ","t","e","x","t",".">>, <<"c","d"," ","a","b"," ","a","b">>>>

-----------------------------------------------------------------------------
(* Claims about the rate limiter, checked under SpecLimiter *)

\* how many calls returned from time a to time b
ReturnedBetween(a, b) ==
    SumCounts([t \in {u \in DOMAIN calls.returned : a <= u /\ u <= b} |-> calls.returned[t]])

\* C22, as stated: no more than MAX_REQUESTS_PER_WINDOW calls of checkRateLimit
\* return within RATE_LIMIT_WINDOW milliseconds, whether or not a minute
\* begins in between
C22_RateLimit ==
    \A t \in DOMAIN calls.returned :
        ReturnedBetween(t - RATE_LIMIT_WINDOW + 1, t) <= MAX_REQUESTS_PER_WINDOW

\* the map holds at most two minute buckets and at most 10 requests
BoundedCounts ==
    /\ Cardinality(DOMAIN requestCounts) <= 2
    /\ SumCounts(requestCounts) <= MAX_REQUESTS_PER_WINDOW

\* a call of checkRateLimit that throws adds no bucket and no request
RejectedAddsNothing ==
    (now' = now /\ calls'.last = "threw") =>
        \A t \in DOMAIN requestCounts' :
            t \in DOMAIN requestCounts /\ requestCounts'[t] = requestCounts[t]

\* C28: after every call of checkRateLimit the requestCounts map holds at
\* most two minute buckets and the sum of its counts is at most 10; a call
\* that is rejected adds nothing to the map
C28_BoundedState == [](BoundedCounts) /\ [][RejectedAddsNothing]_vars

\* a call in the third minute or later is rejected while the map holds two
\* buckets with 10 requests
C28_Witness ==
    /\ calls.last = "threw"
    /\ now >= 2 * 60000
    /\ Cardinality(DOMAIN requestCounts) = 2
    /\ SumCounts(requestCounts) = MAX_REQUESTS_PER_WINDOW

-----------------------------------------------------------------------------
(* Claims about the password reset *)

\* C23: a password-reset token authorises at most one password change:
\* whatever the interleaving of the POST /confirm-password-reset requests
\* that carry one token, at most one of them is answered with success (and has
\* written its password).
C23_SingleUseToken ==
    \A token \in BagToSet(succeeded) : CopiesIn(token, succeeded) <= 1

-----------------------------------------------------------------------------
(* Claims about the chat relay *)

\* the table that the handler of the event inserts into
StoreOf(event) == IF event = "receive_message" THEN messages ELSE messages_ir

\* C26: a chat message is emitted to sockets of its room (receive_message for
\* send_message, receive_message_ir for send_message_ir) only after it was
\* validated and inserted into the message store: a message with a missing
\* field, or whose insert failed, is delivered to no socket.
C26_StoredBeforeEmitted ==
    \A i \in 1..Len(emitted) :
        emitted[i].to # {} =>
            /\ HasRequiredFields(emitted[i].data)
            /\ emitted[i].data \in StoreOf(emitted[i].event)

-----------------------------------------------------------------------------
(* Claims about the e-mail verification *)

\* a step of GET /verify-email that changed the row or the response
VerifyStep == now' = now /\ verifyRes'.op = "verify" /\ <<student, verifyRes>>' # <<student, verifyRes>>

VerifiedPage == "Email Verified Successfully"

\* the request of the step presented the token of the row, which was not
\* older than 24 hours
PresentedCurrentToken ==
    /\ VerifyStep
    /\ verifyRes'.title = VerifiedPage
    /\ verifyRes'.token # SqlNull
    /\ verifyRes'.token = student.verification_token
    /\ now - student.created_at <= VERIFY_WINDOW

FailedResend ==
    /\ now' = now
    /\ verifyRes'.op = "resend"
    /\ verifyRes'.status \in {400, 500}

\* C25: whenever POST /resend-verification-link answers with a failure (400
\* or 500), verification_token, password and created_at of the student are
\* what they were before the request.
C25_FailedResendKeepsRow ==
    [][FailedResend =>
          /\ student'.verification_token = student.verification_token
          /\ student'.password = student.password
          /\ student'.created_at = student.created_at]_vars

\* GET /verify-email with the token of the row passes the check of the age
VerifyAccepted == ~linkExpired(student, now)

\* POST /resend-verification-link for the student passes the check of the age
ResendAccepted == ~student.verified /\ ~linkStillValid(student, now)

AwaitsVerification == ~student.verified /\ student.verification_token # SqlNull

\* a step of POST /resend-verification-link that put a new token in the row
Rotated ==
    /\ verifyRes'.op = "resend"
    /\ student'.verification_token # student.verification_token

\* C27: for an unverified student that has a verification token, exactly one
\* of the two is accepted: GET /verify-email with the current token (age at
\* most 24 hours) or POST /resend-verification-link (age over 24 hours); and
\* a resend starts a new window of 24 hours in which its token is accepted.
C27_Complementary ==
    /\ [](AwaitsVerification => (VerifyAccepted <=> ~ResendAccepted))
    /\ [][Rotated =>
            /\ AwaitsVerification'
            /\ student'.created_at = now
            /\ \A t \in VerifyTimes :
                   (now <= t /\ t <= now + VERIFY_WINDOW) => ~linkExpired(student', t)
            /\ \A t \in VerifyTimes :
                   t > now + VERIFY_WINDOW => ~linkStillValid(student', t)]_vars

\* the link of a resend is on the last millisecond of its 24 hours: it is
\* still accepted and another resend is refused
C27_Witness ==
    /\ AwaitsVerification
    /\ student.verification_token = 2
    /\ verifyRes.op = "resend" /\ verifyRes.status = 200
    /\ now = student.created_at + VERIFY_WINDOW
    /\ VerifyAccepted /\ ~ResendAccepted

-----------------------------------------------------------------------------
(* Claims about the push-token registry, checked under SpecPush *)

\* the operations that send to the tokens of the registry
SendOps ==
    {"send-to-student", "chat-message-notification", "send-to-dos",
     "incident-report-notification", "appointment-notification"}

\* the token of the pair is active in the registry
IsActive(userId, token) ==
    \E i \in RowsOf(user_push_tokens, userId, token) : user_push_tokens[i].is_active

\* the last request was a send that addressed the token of the pair
Addressed(userId, token) ==
    /\ pushRes.op \in SendOps
    /\ \E i \in 1..Len(pushRes.to) :
          pushRes.to[i] = [user_id |-> userId, push_token |-> token]

\* C18, as stated: once a client has registered {userId, expoPushToken} and
\* then deactivated with the same fields, the token is inactive on both
\* servers and no send addresses it until it is registered again; a send to
\* a student without active token reports 0 sent
C18_DeactivationProtocol ==
    /\ \A <<userId, token>> \in deactivated :
          ~IsActive(userId, token) /\ ~Addressed(userId, token)
    /\ (pushRes.op = "send-to-student" /\ pushRes.to = <<>>) => pushRes.sent = 0

\* C19, as stated: however the /push/register calls of a pair interleave,
\* the registry holds one row of the pair, active when the last register
\* succeeded, and a send-to-student makes one message per token
C19_RegistrationIdempotent ==
    /\ \A <<userId, token>> \in Registrations :
          Cardinality(RowsOf(user_push_tokens, userId, token)) <= 1
    /\ (pushRes.op = "register" /\ pushRes.status = 200) =>
          /\ Cardinality(RowsOf(user_push_tokens, pushRes.userId, pushRes.token)) = 1
          /\ IsActive(pushRes.userId, pushRes.token)
    /\ pushRes.op = "send-to-student" =>
          \A i, j \in 1..Len(pushRes.to) : pushRes.to[i] = pushRes.to[j] => i = j

=============================================================================
